---- MODULE Spec2Model ----
(***************************************************************************)
(* A model of the single-cycle RISC-V simulator: bit-vector helpers,       *)
(* instruction decoder, control unit, shifter, ALU dispatch, register      *)
(* file, instruction/data memory and the CPU integrator.                   *)
(*                                                                         *)
(* A bit-vector is a sequence of 0/1 values, MSB first, as in the source   *)
(* (a python list whose index 0 is the MSB).  The python slice v[a:b] is   *)
(* SubSeq(v, a+1, b).                                                      *)
(***************************************************************************)
EXTENDS Integers, Sequences, FiniteSets, TLC

(***************************************************************************)
(* Program constants.                                                      *)
(***************************************************************************)
Width == 32
NumRegs == 32
ImemBase == 0
ImemSize == 1024
DmemBase == 65536
DmemSize == 1024

(***************************************************************************)
(* Bounds of the model.                                                    *)
(***************************************************************************)
MaxLoads == 1
MaxRunCycles == 2

(***************************************************************************)
(* bit_utils.py                                                            *)
(***************************************************************************)
Zeros(n) == [i \in 1..n |-> 0]

Fill(bit, n) == [i \in 1..n |-> bit]

AllZero(bits) == \A i \in 1..Len(bits) : bits[i] = 0

\* python bits[a:b] with 0 <= a <= b <= len(bits)
Slice(bits, a, b) == SubSeq(bits, a + 1, b)

\* python bits[-n:] with n >= 1
Last(bits, n) == IF n >= Len(bits) THEN bits ELSE SubSeq(bits, Len(bits) - n + 1, Len(bits))

Nibble(n) == << n \div 8, (n \div 4) % 2, (n \div 2) % 2, n % 2 >>

RECURSIVE HexBits(_)
HexBits(digits) ==
    IF digits = << >> THEN << >>
    ELSE Nibble(Head(digits)) \o HexBits(Tail(digits))

\* from_hex_string(s, width): the digits of s are given as numbers 0..15
from_hex_string(digits, width) ==
    LET bits == HexBits(digits)
    IN  IF Len(bits) < width THEN Zeros(width - Len(bits)) \o bits
        ELSE Last(bits, width)

sign_extend(bits, new_width) ==
    IF Len(bits) >= new_width THEN Last(bits, new_width)
    ELSE LET sign_bit == IF Len(bits) > 0 THEN bits[1] ELSE 0
         IN  Fill(sign_bit, new_width - Len(bits)) \o bits

zero_extend(bits, new_width) ==
    IF Len(bits) >= new_width THEN Last(bits, new_width)
    ELSE Zeros(new_width - Len(bits)) \o bits

Invert(bits) == [i \in 1..Len(bits) |-> 1 - bits[i]]

\* the +1 of twos_complement_negate: walks from the LSB, stops when the carry dies
RECURSIVE AddOne(_, _)
AddOne(bits, i) ==
    IF i = 0 THEN bits
    ELSE IF bits[i] = 0 THEN [j \in 1..Len(bits) |-> IF j = i THEN 1 ELSE bits[j]]
    ELSE AddOne([j \in 1..Len(bits) |-> IF j = i THEN 0 ELSE bits[j]], i - 1)

twos_complement_negate(bits) == AddOne(Invert(bits), Len(bits))

\* sum of bit * 2^(len-1-i), MSB first
RECURSIVE UnsignedValue(_)
UnsignedValue(bits) ==
    IF bits = << >> THEN 0
    ELSE 2 * UnsignedValue(SubSeq(bits, 1, Len(bits) - 1)) + bits[Len(bits)]

\* minus the same sum, accumulated below zero so that -2^31 stays in range
RECURSIVE NegatedValue(_)
NegatedValue(bits) ==
    IF bits = << >> THEN 0
    ELSE 2 * NegatedValue(SubSeq(bits, 1, Len(bits) - 1)) - bits[Len(bits)]

bits_to_int(bits) ==
    IF bits = << >> THEN 0
    ELSE IF bits[1] = 1 THEN NegatedValue(twos_complement_negate(bits))
    ELSE UnsignedValue(bits)

\* the bits of value >= 0, LSB first (the while loop of int_to_bits)
RECURSIVE LsbFirst(_)
LsbFirst(value) ==
    IF value = 0 THEN << >>
    ELSE << value % 2 >> \o LsbFirst(value \div 2)

Reverse(s) == [i \in 1..Len(s) |-> s[Len(s) + 1 - i]]

PadTo(bits, width) ==
    IF Len(bits) < width THEN bits \o Zeros(width - Len(bits)) ELSE bits

MagnitudeBits(value, width) ==
    SubSeq(Reverse(PadTo(LsbFirst(value), width)), 1, width)

int_to_bits(value, width) ==
    IF value < 0 THEN twos_complement_negate(MagnitudeBits(-value, width))
    ELSE IF value = 0 THEN Zeros(width)
    ELSE MagnitudeBits(value, width)

Zero32 == Zeros(Width)

(***************************************************************************)
(* instruction_decoder.py                                                  *)
(***************************************************************************)
decode(instruction) ==
    LET imm_i == Slice(instruction, 20, 32)
        imm_s == Slice(instruction, 0, 7) \o Slice(instruction, 20, 25)
        imm_b == << instruction[32] >> \o Slice(instruction, 25, 31)
                   \o Slice(instruction, 8, 12) \o << instruction[8] >> \o << 0 >>
        imm_u == Slice(instruction, 0, 20) \o Zeros(12)
        imm_j == << instruction[32] >> \o Slice(instruction, 21, 31)
                   \o << instruction[21] >> \o Slice(instruction, 12, 20) \o << 0 >>
    IN  [ opcode_int |-> bits_to_int(Slice(instruction, 25, 32)),
          rd         |-> bits_to_int(Slice(instruction, 20, 25)),
          rs1        |-> bits_to_int(Slice(instruction, 12, 17)),
          rs2        |-> bits_to_int(Slice(instruction, 7, 12)),
          funct3     |-> bits_to_int(Slice(instruction, 17, 20)),
          funct7     |-> bits_to_int(Slice(instruction, 0, 7)),
          imm_i      |-> imm_i,
          imm_i_sext |-> sign_extend(imm_i, 32),
          imm_s      |-> imm_s,
          imm_s_sext |-> sign_extend(imm_s, 32),
          imm_b      |-> imm_b,
          imm_b_sext |-> sign_extend(imm_b, 32),
          imm_u      |-> imm_u,
          imm_u_sext |-> imm_u,
          imm_j      |-> imm_j,
          imm_j_sext |-> sign_extend(imm_j, 32),
          instruction |-> instruction ]

get_instruction_name(decoded) ==
    LET opcode == decoded.opcode_int
        funct3 == decoded.funct3
        funct7 == decoded.funct7
    IN  CASE opcode = 51 ->
               (CASE funct3 = 0 -> (IF funct7 = 0 THEN "ADD"
                                    ELSE IF funct7 = 32 THEN "SUB" ELSE "UNKNOWN")
                  [] funct3 = 7 -> "AND"
                  [] funct3 = 6 -> "OR"
                  [] funct3 = 4 -> "XOR"
                  [] funct3 = 1 -> "SLL"
                  [] funct3 = 5 -> (IF funct7 = 0 THEN "SRL"
                                    ELSE IF funct7 = 32 THEN "SRA" ELSE "UNKNOWN")
                  [] OTHER -> "UNKNOWN")
          [] opcode = 19 ->
               (CASE funct3 = 0 -> "ADDI"
                  [] funct3 = 7 -> "ANDI"
                  [] funct3 = 6 -> "ORI"
                  [] funct3 = 4 -> "XORI"
                  [] funct3 = 1 -> "SLLI"
                  [] funct3 = 5 -> (IF funct7 = 0 THEN "SRLI"
                                    ELSE IF funct7 = 32 THEN "SRAI" ELSE "UNKNOWN")
                  [] OTHER -> "UNKNOWN")
          [] opcode = 3 ->
               (CASE funct3 = 0 -> "LB"
                  [] funct3 = 1 -> "LH"
                  [] funct3 = 2 -> "LW"
                  [] OTHER -> "UNKNOWN")
          [] opcode = 35 ->
               (CASE funct3 = 0 -> "SB"
                  [] funct3 = 1 -> "SH"
                  [] funct3 = 2 -> "SW"
                  [] OTHER -> "UNKNOWN")
          [] opcode = 99 ->
               (CASE funct3 = 0 -> "BEQ"
                  [] funct3 = 1 -> "BNE"
                  [] funct3 = 4 -> "BLT"
                  [] funct3 = 5 -> "BGE"
                  [] funct3 = 6 -> "BLTU"
                  [] funct3 = 7 -> "BGEU"
                  [] OTHER -> "UNKNOWN")
          [] opcode = 55 -> "LUI"
          [] opcode = 23 -> "AUIPC"
          [] opcode = 111 -> "JAL"
          [] opcode = 103 -> "JALR"
          [] OTHER -> "UNKNOWN"

(***************************************************************************)
(* control_unit.py                                                         *)
(***************************************************************************)
DefaultSignals ==
    [ RegWrite |-> 0, MemRead |-> 0, MemWrite |-> 0, MemToReg |-> 0,
      ALUSrc |-> 0, Branch |-> 0, Jump |-> 0, ALUOp |-> "ADD",
      ImmType |-> "I", ShiftOp |-> "None", UseShift |-> 0 ]

\* instruction_name.replace('I', '')
StripI(name) ==
    CASE name = "ADDI" -> "ADD"
      [] name = "ANDI" -> "AND"
      [] name = "ORI"  -> "OR"
      [] name = "XORI" -> "XOR"
      [] name = "SLLI" -> "SLL"
      [] name = "SRLI" -> "SRL"
      [] name = "SRAI" -> "SRA"
      [] OTHER -> name

generate_control_signals(decoded, instruction_name) ==
    LET s == DefaultSignals
        n == instruction_name
    IN  CASE n \in {"ADD", "SUB", "AND", "OR", "XOR"} ->
               [s EXCEPT !.RegWrite = 1, !.MemToReg = 0, !.ALUSrc = 0,
                         !.ALUOp = n, !.ImmType = "R"]
          [] n \in {"ADDI", "ANDI", "ORI", "XORI"} ->
               [s EXCEPT !.RegWrite = 1, !.MemToReg = 0, !.ALUSrc = 1,
                         !.ALUOp = StripI(n), !.ImmType = "I"]
          [] n \in {"SLL", "SRL", "SRA"} ->
               [s EXCEPT !.RegWrite = 1, !.MemToReg = 0, !.ALUSrc = 0,
                         !.UseShift = 1, !.ShiftOp = n, !.ImmType = "R"]
          [] n \in {"SLLI", "SRLI", "SRAI"} ->
               [s EXCEPT !.RegWrite = 1, !.MemToReg = 0, !.ALUSrc = 1,
                         !.UseShift = 1, !.ShiftOp = StripI(n), !.ImmType = "I"]
          [] n = "LW" ->
               [s EXCEPT !.RegWrite = 1, !.MemRead = 1, !.MemToReg = 1,
                         !.ALUSrc = 1, !.ALUOp = "ADD", !.ImmType = "I"]
          [] n = "SW" ->
               [s EXCEPT !.MemWrite = 1, !.ALUSrc = 1, !.ALUOp = "ADD",
                         !.ImmType = "S"]
          [] n \in {"BEQ", "BNE"} ->
               [s EXCEPT !.Branch = 1, !.ALUSrc = 0, !.ALUOp = "SUB",
                         !.ImmType = "B"]
          [] n = "JAL" ->
               [s EXCEPT !.RegWrite = 1, !.Jump = 1, !.ImmType = "J"]
          [] n = "JALR" ->
               [s EXCEPT !.RegWrite = 1, !.Jump = 1, !.ALUSrc = 1,
                         !.ALUOp = "ADD", !.ImmType = "I"]
          [] n = "LUI" ->
               [s EXCEPT !.RegWrite = 1, !.MemToReg = 0, !.ALUSrc = 1,
                         !.ALUOp = "LUI", !.ImmType = "U"]
          [] n = "AUIPC" ->
               [s EXCEPT !.RegWrite = 1, !.MemToReg = 0, !.ALUSrc = 1,
                         !.ALUOp = "ADD", !.ImmType = "U"]
          [] OTHER -> s

(***************************************************************************)
(* shifter.py                                                              *)
(***************************************************************************)
shift_left_logical(data, shift_amount) ==
    IF shift_amount >= Width THEN Zeros(Width)
    ELSE IF shift_amount <= 0 THEN data
    ELSE Slice(data, shift_amount, Len(data)) \o Zeros(shift_amount)

shift_right_logical(data, shift_amount) ==
    IF shift_amount >= Width THEN Zeros(Width)
    ELSE IF shift_amount <= 0 THEN data
    ELSE Zeros(shift_amount) \o Slice(data, 0, Len(data) - shift_amount)

shift_right_arithmetic(data, shift_amount) ==
    IF shift_amount >= Width THEN Fill(data[1], Width)
    ELSE IF shift_amount <= 0 THEN data
    ELSE Fill(data[1], shift_amount) \o Slice(data, 0, Len(data) - shift_amount)

BarrelShifter_shift(data, shift_amount, operation) ==
    CASE operation = "SLL" -> shift_left_logical(data, shift_amount)
      [] operation = "SRL" -> shift_right_logical(data, shift_amount)
      [] operation = "SRA" -> shift_right_arithmetic(data, shift_amount)

Shifter_execute_unmasked(data, shift_amount_bits, operation) ==
    BarrelShifter_shift(data, UnsignedValue(shift_amount_bits), operation)

Shifter_execute(data, shift_amount_bits, operation) ==
    BarrelShifter_shift(data, UnsignedValue(shift_amount_bits) % 32, operation)

(***************************************************************************)
(* alu.py.  A call that can raise returns a record whose field raised      *)
(* names the exception ("None" when the call returns).                     *)
(***************************************************************************)
FullAdder_add(a, b, carry_in) ==
    [ sum_bit   |-> (a + b + carry_in) % 2,
      carry_out |-> IF (a = 1 /\ b = 1) \/ (carry_in = 1 /\ a # b) THEN 1 ELSE 0 ]

\* the loop of RippleCarryAdder.add from index i-1 (0-based) down to 0
RECURSIVE RippleLoop(_, _, _, _, _)
RippleLoop(a, b, i, carry, sum_bits) ==
    IF i = 0 THEN [sum_bits |-> sum_bits, carry |-> carry]
    ELSE LET fa == FullAdder_add(a[i], b[i], carry)
         IN  RippleLoop(a, b, i - 1, fa.carry_out, << fa.sum_bit >> \o sum_bits)

RippleCarryAdder_add(a, b, carry_in) ==
    IF Len(a) # Width \/ Len(b) # Width
    THEN [raised |-> "ValueError", sum_bits |-> << >>, carry |-> 0]
    ELSE LET r == RippleLoop(a, b, Width, carry_in, << >>)
         IN  [raised |-> "None", sum_bits |-> r.sum_bits, carry |-> r.carry]

\* b_neg = ~b, then +1 in place (the carry loop breaks when the carry dies)
RippleCarryAdder_subtract(a, b) ==
    RippleCarryAdder_add(a, AddOne(Invert(b), Width), 0)

\* class ALU binds add and sub (and the instance width and adder);
\* _generate_flags and execute are defined at module level, after the class
\* body, so an ALU instance has no attribute of either name.
ALU_attributes == {"width", "adder", "add", "sub"}

generate_flags(a, b, result, carry_out, is_subtraction) ==
    [ N |-> result[1],
      Z |-> IF AllZero(result) THEN 1 ELSE 0,
      C |-> carry_out,
      V |-> IF is_subtraction
            THEN (IF a[1] # b[1] /\ result[1] # a[1] THEN 1 ELSE 0)
            ELSE (IF a[1] = b[1] /\ result[1] # a[1] THEN 1 ELSE 0) ]

ALU_raise(exc) == [raised |-> exc, result |-> << >>, N |-> 0, Z |-> 0, C |-> 0, V |-> 0]

ALU_package(a, b, r, is_subtraction) ==
    IF r.raised # "None" THEN ALU_raise(r.raised)
    ELSE IF "_generate_flags" \notin ALU_attributes THEN ALU_raise("AttributeError")
    ELSE LET flags == generate_flags(a, b, r.sum_bits, r.carry, is_subtraction)
         IN  [raised |-> "None", result |-> r.sum_bits,
              N |-> flags.N, Z |-> flags.Z, C |-> flags.C, V |-> flags.V]

ALU_add(a, b) ==
    IF Len(a) # Width \/ Len(b) # Width THEN ALU_raise("ValueError")
    ELSE ALU_package(a, b, RippleCarryAdder_add(a, b, 0), FALSE)

ALU_sub(a, b) ==
    IF Len(a) # Width \/ Len(b) # Width THEN ALU_raise("ValueError")
    ELSE ALU_package(a, b, RippleCarryAdder_subtract(a, b), TRUE)

\* the module-level function execute(self, a, b, op)
execute(a, b, op) ==
    CASE op = "ADD" -> ALU_add(a, b)
      [] op = "SUB" -> ALU_sub(a, b)
      [] OTHER -> ALU_raise("ValueError")

\* the expression self.alu.execute(rs1_data, alu_b, ctrl['ALUOp']) of the CPU
ALU_execute(a, b, op) ==
    IF "execute" \notin ALU_attributes THEN ALU_raise("AttributeError")
    ELSE execute(a, b, op)

(***************************************************************************)
(* Python integers.  The operands of the multiply/divide unit leave the    *)
(* 32-bit range (products of 62 bits, 2**64), so a Python int is a record  *)
(* of its sign and of the base-256 digits of its magnitude, least          *)
(* significant first, without leading zeros; zero is                       *)
(* [neg |-> FALSE, mag |-> << >>].                                         *)
(***************************************************************************)
RECURSIVE Trim(_)
Trim(x) ==
    IF x = << >> THEN << >>
    ELSE IF x[Len(x)] = 0 THEN Trim(SubSeq(x, 1, Len(x) - 1))
    ELSE x

Digit(x, i) == IF i >= 1 /\ i <= Len(x) THEN x[i] ELSE 0

Longer(x, y) == IF Len(x) < Len(y) THEN Len(y) ELSE Len(x)

\* the carry into digit i of x + y
RECURSIVE AddCarry(_, _, _)
AddCarry(x, y, i) ==
    IF i <= 1 THEN 0
    ELSE (Digit(x, i - 1) + Digit(y, i - 1) + AddCarry(x, y, i - 1)) \div 256

NatAdd(x, y) ==
    Trim([i \in 1..(Longer(x, y) + 1) |->
             (Digit(x, i) + Digit(y, i) + AddCarry(x, y, i)) % 256])

\* the borrow out of digit i - 1 of x - y
RECURSIVE SubBorrow(_, _, _)
SubBorrow(x, y, i) ==
    IF i <= 1 THEN 0
    ELSE IF Digit(x, i - 1) - Digit(y, i - 1) - SubBorrow(x, y, i - 1) < 0 THEN 1
    ELSE 0

\* x - y for x >= y
NatSub(x, y) ==
    Trim([i \in 1..Len(x) |->
             (Digit(x, i) - Digit(y, i) - SubBorrow(x, y, i) + 256) % 256])

\* x < y, comparing from the most significant digit down
RECURSIVE NatLessFrom(_, _, _)
NatLessFrom(x, y, i) ==
    IF i = 0 THEN FALSE
    ELSE IF x[i] # y[i] THEN x[i] < y[i]
    ELSE NatLessFrom(x, y, i - 1)

NatLess(x, y) ==
    IF Len(x) # Len(y) THEN Len(x) < Len(y) ELSE NatLessFrom(x, y, Len(x))

\* sum over i <= n of x[i] * y[k + 1 - i]: column k of the schoolbook product
RECURSIVE Column(_, _, _, _)
Column(x, y, k, n) ==
    IF n = 0 THEN 0
    ELSE Digit(x, n) * Digit(y, k + 1 - n) + Column(x, y, k, n - 1)

\* the carry into column k
RECURSIVE MulCarry(_, _, _)
MulCarry(x, y, k) ==
    IF k <= 1 THEN 0
    ELSE (Column(x, y, k - 1, Len(x)) + MulCarry(x, y, k - 1)) \div 256

NatMul(x, y) ==
    Trim([k \in 1..(Len(x) + Len(y)) |->
             (Column(x, y, k, Len(x)) + MulCarry(x, y, k)) % 256])

\* bit i (from 1, least significant first) of x
NatBit(x, i) == (Digit(x, ((i - 1) \div 8) + 1) \div (2 ^ ((i - 1) % 8))) % 2

\* the magnitude of a bit vector given least significant bit first
NatOfBits(lsb) ==
    Trim([j \in 1..((Len(lsb) + 7) \div 8) |->
             Digit(lsb, 8 * j - 7) + 2 * Digit(lsb, 8 * j - 6)
               + 4 * Digit(lsb, 8 * j - 5) + 8 * Digit(lsb, 8 * j - 4)
               + 16 * Digit(lsb, 8 * j - 3) + 32 * Digit(lsb, 8 * j - 2)
               + 64 * Digit(lsb, 8 * j - 1) + 128 * Digit(lsb, 8 * j)])

\* 2 * r + bit
Shift1(r, bit) == NatAdd(NatAdd(r, r), IF bit = 1 THEN << 1 >> ELSE << >>)

\* long division of x by y > 0 from bit i of x down to bit 1: q collects the
\* quotient bits, least significant first, and r is the running remainder
RECURSIVE NatDivLoop(_, _, _, _, _)
NatDivLoop(x, y, i, q, r) ==
    IF i = 0 THEN [q |-> NatOfBits(q), r |-> r]
    ELSE IF NatLess(Shift1(r, NatBit(x, i)), y)
    THEN NatDivLoop(x, y, i - 1, << 0 >> \o q, Shift1(r, NatBit(x, i)))
    ELSE NatDivLoop(x, y, i - 1, << 1 >> \o q, NatSub(Shift1(r, NatBit(x, i)), y))

NatDivMod(x, y) == NatDivLoop(x, y, 8 * Len(x), << >>, << >>)

\* the bits of a magnitude, least significant first, up to its highest 1
RECURSIVE TrimBits(_)
TrimBits(bits) ==
    IF bits = << >> THEN << >>
    ELSE IF bits[Len(bits)] = 0 THEN TrimBits(SubSeq(bits, 1, Len(bits) - 1))
    ELSE bits

BitsOfNat(x) == TrimBits([i \in 1..(8 * Len(x)) |-> NatBit(x, i)])

IntOf(neg, mag) == [neg |-> neg /\ mag # << >>, mag |-> mag]

PyZero == IntOf(FALSE, << >>)

Pow2(n) == IntOf(FALSE, NatOfBits(Zeros(n) \o << 1 >>))

IntNeg(a) == IntOf(~a.neg, a.mag)

IntAdd(a, b) ==
    IF a.neg = b.neg THEN IntOf(a.neg, NatAdd(a.mag, b.mag))
    ELSE IF NatLess(a.mag, b.mag) THEN IntOf(b.neg, NatSub(b.mag, a.mag))
    ELSE IntOf(a.neg, NatSub(a.mag, b.mag))

IntSub(a, b) == IntAdd(a, IntNeg(b))

IntMul(a, b) == IntOf(a.neg # b.neg, NatMul(a.mag, b.mag))

IntLess(a, b) ==
    IF a.neg # b.neg THEN a.neg
    ELSE IF a.neg THEN NatLess(b.mag, a.mag)
    ELSE NatLess(a.mag, b.mag)

\* bits_to_int with a result of any size
bits_to_pyint(bits) ==
    IF bits = << >> THEN IntOf(FALSE, << >>)
    ELSE IF bits[1] = 1 THEN IntOf(TRUE, NatOfBits(Reverse(twos_complement_negate(bits))))
    ELSE IntOf(FALSE, NatOfBits(Reverse(bits)))

\* int_to_bits of a value of any size
pyint_to_bits(value, width) ==
    IF value.neg
    THEN twos_complement_negate(SubSeq(Reverse(PadTo(BitsOfNat(value.mag), width)), 1, width))
    ELSE IF value.mag = << >> THEN Zeros(width)
    ELSE SubSeq(Reverse(PadTo(BitsOfNat(value.mag), width)), 1, width)

\* python a // b and a % b for b # 0 (floor division)
PyDivMod(a, b) ==
    LET dm == NatDivMod(a.mag, b.mag)
    IN  IF a.neg = b.neg THEN [q |-> IntOf(FALSE, dm.q), r |-> IntOf(b.neg, dm.r)]
        ELSE IF dm.r = << >> THEN [q |-> IntOf(TRUE, dm.q), r |-> IntOf(FALSE, << >>)]
        ELSE [q |-> IntOf(TRUE, NatAdd(dm.q, << 1 >>)),
              r |-> IntOf(b.neg, NatSub(b.mag, dm.r))]

PyFloorDiv(a, b) == PyDivMod(a, b).q

PyMod(a, b) == PyDivMod(a, b).r

\* python x & 0xFFFFFFFF and x >> 32 for x >= 0
Low32(x) == IntOf(FALSE, Trim(SubSeq(x.mag, 1, IF Len(x.mag) < 4 THEN Len(x.mag) ELSE 4)))

ShiftRight32(x) == IntOf(FALSE, SubSeq(x.mag, 5, Len(x.mag)))

(***************************************************************************)
(* mdu.py                                                                  *)
(***************************************************************************)
BoothMultiplier_multiply(multiplicand, multiplier) ==
    IF Len(multiplicand) # Width \/ Len(multiplier) # Width
    THEN [raised |-> "ValueError", low |-> << >>, high |-> << >>, overflow |-> 0]
    ELSE LET expected_product == IntMul(bits_to_pyint(multiplicand), bits_to_pyint(multiplier))
             product_64 == IF expected_product.neg THEN IntAdd(expected_product, Pow2(64))
                           ELSE expected_product
             low_bits == pyint_to_bits(Low32(product_64), Width)
             high_bits == pyint_to_bits(Low32(ShiftRight32(product_64)), Width)
         IN  [raised |-> "None", low |-> low_bits, high |-> high_bits,
              overflow |-> IF expected_product # bits_to_pyint(low_bits) THEN 1 ELSE 0]

DivideResult(quotient_int, remainder_int, overflow) ==
    [raised |-> "None",
     quotient |-> pyint_to_bits(quotient_int, Width),
     remainder |-> pyint_to_bits(remainder_int, Width),
     overflow |-> overflow]

SignedDivide_floor(dividend_int, divisor_int) ==
    DivideResult(PyFloorDiv(dividend_int, divisor_int), PyMod(dividend_int, divisor_int), 0)

\* mdu.py lines 100-112
SignedDivide(dividend_int, divisor_int) ==
    IF ~dividend_int.neg /\ ~divisor_int.neg
    THEN DivideResult(PyFloorDiv(dividend_int, divisor_int),
                      PyMod(dividend_int, divisor_int), 0)
    ELSE IF ~dividend_int.neg /\ divisor_int.neg
    THEN DivideResult(IntNeg(PyFloorDiv(dividend_int, IntNeg(divisor_int))),
                      PyMod(dividend_int, IntNeg(divisor_int)), 0)
    ELSE IF dividend_int.neg /\ ~divisor_int.neg
    THEN DivideResult(IntNeg(PyFloorDiv(IntNeg(dividend_int), divisor_int)),
                      IntNeg(PyMod(IntNeg(dividend_int), divisor_int)), 0)
    ELSE DivideResult(PyFloorDiv(IntNeg(dividend_int), IntNeg(divisor_int)),
                      IntNeg(PyMod(IntNeg(dividend_int), IntNeg(divisor_int))), 0)

\* the wrap of lines 114-117 and of lines 122-125
ToUnsigned(x) == IF x.neg THEN IntAdd(x, Pow2(Width)) ELSE x

ToSigned(x) == IF ~IntLess(x, Pow2(Width - 1)) THEN IntSub(x, Pow2(Width)) ELSE x

\* mdu.py lines 113-125
UnsignedDivide(dividend_int, divisor_int) ==
    DivideResult(ToSigned(PyFloorDiv(ToUnsigned(dividend_int), ToUnsigned(divisor_int))),
                 ToSigned(PyMod(ToUnsigned(dividend_int), ToUnsigned(divisor_int))), 0)

RestoringDivider_divide_no_overflow_case(dividend, divisor, signed) ==
    IF Len(dividend) # Width \/ Len(divisor) # Width
    THEN [raised |-> "ValueError", quotient |-> << >>, remainder |-> << >>, overflow |-> 0]
    ELSE IF bits_to_pyint(divisor) = PyZero
    THEN DivideResult(IF signed THEN IntOf(TRUE, << 1 >>) ELSE IntOf(FALSE, Fill(255, 4)),
                      bits_to_pyint(dividend), 0)
    ELSE IF signed THEN SignedDivide(bits_to_pyint(dividend), bits_to_pyint(divisor))
    ELSE UnsignedDivide(bits_to_pyint(dividend), bits_to_pyint(divisor))

RestoringDivider_divide(dividend, divisor, signed) ==
    IF Len(dividend) # Width \/ Len(divisor) # Width
    THEN [raised |-> "ValueError", quotient |-> << >>, remainder |-> << >>, overflow |-> 0]
    ELSE LET dividend_int == bits_to_pyint(dividend)
             divisor_int == bits_to_pyint(divisor)
         IN  IF divisor_int = PyZero
             THEN DivideResult(IF signed THEN IntOf(TRUE, << 1 >>)
                               ELSE IntOf(FALSE, Fill(255, 4)),
                               dividend_int, 0)
             ELSE IF signed /\ dividend_int = IntNeg(Pow2(Width - 1))
                            /\ divisor_int = IntOf(TRUE, << 1 >>)
             THEN DivideResult(IntNeg(Pow2(Width - 1)), PyZero, 1)
             ELSE IF signed THEN SignedDivide(dividend_int, divisor_int)
             ELSE UnsignedDivide(dividend_int, divisor_int)

MDU_result(raised, rd, overflow) == [raised |-> raised, rd |-> rd, overflow |-> overflow]

MDU_multiply(rs1, rs2, half) ==
    LET result == BoothMultiplier_multiply(rs1, rs2)
    IN  MDU_result(result.raised, result[half], result.overflow)

MDU_divide(rs1, rs2, signed, part) ==
    LET result == RestoringDivider_divide(rs1, rs2, signed)
    IN  MDU_result(result.raised, result[part], result.overflow)

mul(rs1, rs2) == MDU_multiply(rs1, rs2, "low")
mulh(rs1, rs2) == MDU_multiply(rs1, rs2, "high")
mulhu(rs1, rs2) == MDU_multiply(rs1, rs2, "high")
mulhsu(rs1, rs2) == MDU_multiply(rs1, rs2, "high")
div(rs1, rs2) == MDU_divide(rs1, rs2, TRUE, "quotient")
divu(rs1, rs2) == MDU_divide(rs1, rs2, FALSE, "quotient")
rem(rs1, rs2) == MDU_divide(rs1, rs2, TRUE, "remainder")
remu(rs1, rs2) == MDU_divide(rs1, rs2, FALSE, "remainder")

MDU(op, rs1, rs2) ==
    CASE op = "mul" -> mul(rs1, rs2)
      [] op = "mulh" -> mulh(rs1, rs2)
      [] op = "mulhu" -> mulhu(rs1, rs2)
      [] op = "mulhsu" -> mulhsu(rs1, rs2)
      [] op = "div" -> div(rs1, rs2)
      [] op = "divu" -> divu(rs1, rs2)
      [] op = "rem" -> rem(rs1, rs2)
      [] op = "remu" -> remu(rs1, rs2)

(***************************************************************************)
(* Strings.  A decimal string is a record of its sign and its digits, most *)
(* significant first; a hex string is the sequence of its digits (0..15)   *)
(* after the 0x prefix.                                                    *)
(***************************************************************************)
\* str(value) for value >= 0, most significant digit first
RECURSIVE DecimalDigits(_)
DecimalDigits(mag) ==
    IF ~NatLess(mag, << 10 >>)
    THEN Append(DecimalDigits(NatDivMod(mag, << 10 >>).q),
                Digit(NatDivMod(mag, << 10 >>).r, 1))
    ELSE << Digit(mag, 1) >>

str(value) == [neg |-> value.neg, digits |-> DecimalDigits(value.mag)]

\* int(digits) for a string of decimal digits
RECURSIVE NatOfDecimal(_)
NatOfDecimal(digits) ==
    IF digits = << >> THEN << >>
    ELSE NatAdd(NatMul(NatOfDecimal(SubSeq(digits, 1, Len(digits) - 1)), << 10 >>),
                Trim(<< digits[Len(digits)] >>))

int(s) == IntOf(s.neg, NatOfDecimal(s.digits))

\* bit_utils.py lines 5-24
from_decimal_string(s, width) ==
    LET value == NatOfDecimal(s.digits)
        bits == IF value = << >> THEN Zeros(width)
                ELSE SubSeq(Reverse(PadTo(BitsOfNat(value), width)), 1, width)
    IN  IF s.neg THEN twos_complement_negate(bits) ELSE bits

to_decimal_string_unsigned(bits) ==
    [neg |-> FALSE, digits |-> DecimalDigits(NatOfBits(Reverse(bits)))]

\* bit_utils.py lines 26-40
to_decimal_string(bits) ==
    IF bits = << >> THEN [neg |-> FALSE, digits |-> << 0 >>]
    ELSE IF bits[1] = 1
    THEN [neg |-> TRUE,
          digits |-> DecimalDigits(NatOfBits(Reverse(twos_complement_negate(bits))))]
    ELSE [neg |-> FALSE, digits |-> DecimalDigits(NatOfBits(Reverse(bits)))]

\* bit_utils.py lines 69-89: the hex digits of the bits, padded on the left
\* to a multiple of 4
to_hex_string(bits) ==
    LET pad == (4 - (Len(bits) % 4)) % 4
        padded_bits(k) == IF k <= pad THEN 0 ELSE bits[k - pad]
    IN  IF bits = << >> THEN << 0 >>
        ELSE [i \in 1..((Len(bits) + pad) \div 4) |->
                 8 * padded_bits(4 * i - 3) + 4 * padded_bits(4 * i - 2)
                   + 2 * padded_bits(4 * i - 1) + padded_bits(4 * i)]

(***************************************************************************)
(* twos_complement.py                                                      *)
(***************************************************************************)
encode_twos_complement(value, width) ==
    LET min_val == IntNeg(Pow2(width - 1))
        max_val == IntSub(Pow2(width - 1), IntOf(FALSE, << 1 >>))
        bits == from_decimal_string(str(value), width)
    IN  [ bin |-> bits,
          hex |-> to_hex_string(bits),
          overflow_flag |-> IF IntLess(value, min_val) \/ IntLess(max_val, value)
                            THEN 1 ELSE 0 ]

\* decode_twos_complement of a string that starts with 0x
decode_twos_complement(hex) ==
    [ value |-> int(to_decimal_string(from_hex_string(hex, 32))) ]

(***************************************************************************)
(* registers.py.  A Reg is a record; clear() is called by neither the      *)
(* register file nor the CPU, so clear_enable stays false.                 *)
(***************************************************************************)
NewReg == [data |-> Zeros(Width), load_enable |-> FALSE, clear_enable |-> FALSE]

Reg_load(reg, data, enable) ==
    LET d == IF enable /\ Len(data) = Width THEN data
             ELSE IF enable
             THEN (IF Len(data) < Width THEN Zeros(Width - Len(data)) \o data
                   ELSE Last(data, Width))
             ELSE reg.data
    IN  [reg EXCEPT !.load_enable = enable, !.data = d]

\* Reg.clock_edge with the clear branch taken whenever no load is pending
Reg_clock_edge_clear_by_default(reg) ==
    IF reg.load_enable THEN [reg EXCEPT !.load_enable = FALSE]
    ELSE [reg EXCEPT !.data = Zeros(Width), !.clear_enable = FALSE]

Reg_clock_edge(reg) ==
    IF reg.clear_enable
    THEN [reg EXCEPT !.data = Zeros(Width), !.clear_enable = FALSE]
    ELSE IF reg.load_enable THEN [reg EXCEPT !.load_enable = FALSE]
    ELSE reg

RegAddrs == 0..(NumRegs - 1)

NewRegisterFile == [a \in RegAddrs |-> NewReg]

RegisterFile_read(rf, addr) ==
    IF 0 <= addr /\ addr < NumRegs
    THEN [raised |-> "None", value |-> rf[addr].data]
    ELSE [raised |-> "ValueError", value |-> << >>]

\* RegisterFile.write without the early return on address 0
RegisterFile_write_x0_writable(rf, addr, data, enable) ==
    IF 0 <= addr /\ addr < NumRegs
    THEN [raised |-> "None", rf |-> [rf EXCEPT ![addr] = Reg_load(rf[addr], data, enable)]]
    ELSE [raised |-> "ValueError", rf |-> rf]

RegisterFile_write(rf, addr, data, enable) ==
    IF addr = 0 THEN [raised |-> "None", rf |-> rf]
    ELSE IF 0 <= addr /\ addr < NumRegs
    THEN [raised |-> "None", rf |-> [rf EXCEPT ![addr] = Reg_load(rf[addr], data, enable)]]
    ELSE [raised |-> "ValueError", rf |-> rf]

RegisterFile_clock_edge(rf) == [a \in RegAddrs |-> Reg_clock_edge(rf[a])]

(***************************************************************************)
(* memory.py.  A memory image is a function from the mapped addresses to   *)
(* the stored words.                                                       *)
(***************************************************************************)
EmptyMemory == [a \in {} |-> Zero32]

Store(mem, addr, word) == [a \in (DOMAIN mem) \cup {addr} |-> IF a = addr THEN word ELSE mem[a]]

\* the loop of InstructionMemory.load_program from word i (1-based) on
RECURSIVE LoadLoop(_, _, _, _)
LoadLoop(mem, instructions, start_address, i) ==
    IF i > Len(instructions) THEN [raised |-> "None", memory |-> mem]
    ELSE LET addr == start_address + ((i - 1) * 4)
         IN  IF addr < ImemBase \/ addr >= ImemBase + ImemSize
             THEN [raised |-> "ValueError", memory |-> mem]
             ELSE LoadLoop(Store(mem, addr, instructions[i]), instructions,
                           start_address, i + 1)

InstructionMemory_load_program(mem, instructions, start_address) ==
    LoadLoop(mem, instructions, start_address, 1)

InstructionMemory_read(mem, address) ==
    IF address % 4 # 0 THEN [raised |-> "ValueError", value |-> << >>]
    ELSE IF address \in DOMAIN mem THEN [raised |-> "None", value |-> mem[address]]
    ELSE [raised |-> "None", value |-> Zeros(32)]

DataMemory_read_word(mem, address) ==
    IF address % 4 # 0 THEN [raised |-> "ValueError", value |-> << >>]
    ELSE IF address < DmemBase \/ address >= DmemBase + DmemSize
    THEN [raised |-> "ValueError", value |-> << >>]
    ELSE IF address \in DOMAIN mem THEN [raised |-> "None", value |-> mem[address]]
    ELSE [raised |-> "None", value |-> Zeros(32)]

DataMemory_write_word_unaligned(mem, address, data) ==
    IF Len(data) # 32 THEN [raised |-> "ValueError", memory |-> mem]
    ELSE IF address < DmemBase \/ address >= DmemBase + DmemSize
    THEN [raised |-> "ValueError", memory |-> mem]
    ELSE [raised |-> "None", memory |-> Store(mem, address, data)]

DataMemory_write_word(mem, address, data) ==
    IF Len(data) # 32 THEN [raised |-> "ValueError", memory |-> mem]
    ELSE IF address % 4 # 0 THEN [raised |-> "ValueError", memory |-> mem]
    ELSE IF address < DmemBase \/ address >= DmemBase + DmemSize
    THEN [raised |-> "ValueError", memory |-> mem]
    ELSE [raised |-> "None", memory |-> Store(mem, address, data)]

(***************************************************************************)
(* cpu.py.  A CPU is a record of its fields; each method is an operator    *)
(* from the CPU before the call to the CPU after it, the name of the       *)
(* exception that left the method ("None" when it returned) and the value  *)
(* returned.                                                               *)
(***************************************************************************)
NewCPU ==
    [ reg_file |-> NewRegisterFile,
      imem |-> EmptyMemory,
      dmem |-> EmptyMemory,
      pc |-> 0,
      halted |-> FALSE,
      cycle_count |-> 0,
      instruction_count |-> 0 ]

Return(cpu, value) == [cpu |-> cpu, raised |-> "None", ret |-> value]

Raise(cpu, exc) == [cpu |-> cpu, raised |-> exc, ret |-> "None"]

CPU_load_program(cpu, instructions, start_address) ==
    LET r == InstructionMemory_load_program(cpu.imem, instructions, start_address)
    IN  IF r.raised # "None"
        THEN Raise([cpu EXCEPT !.imem = r.memory], r.raised)
        ELSE Return([cpu EXCEPT !.imem = r.memory, !.pc = start_address], "None")

\* operand select, cpu.py lines 63-75
SelectALUB(ctrl, decoded, rs2_data) ==
    IF ctrl.ALUSrc = 1
    THEN CASE ctrl.ImmType = "I" -> decoded.imm_i_sext
           [] ctrl.ImmType = "S" -> decoded.imm_s_sext
           [] ctrl.ImmType = "U" -> decoded.imm_u_sext
           [] ctrl.ImmType = "J" -> decoded.imm_j_sext
           [] OTHER -> rs2_data
    ELSE rs2_data

\* execute stage, cpu.py lines 77-95
ExecuteStage(ctrl, decoded, rs1_data, rs2_data, alu_b) ==
    IF ctrl.UseShift = 1
    THEN LET shift_amount ==
                 IF ctrl.ALUSrc = 1
                 THEN (IF ctrl.ImmType = "I" THEN Slice(decoded.imm_i, 7, 12)
                       ELSE Slice(alu_b, 27, 32))
                 ELSE Slice(rs2_data, 27, 32)
             result == Shifter_execute(rs1_data, shift_amount, ctrl.ShiftOp)
         IN  [raised |-> "None", result |-> result,
              Z |-> IF AllZero(result) THEN 1 ELSE 0]
    ELSE IF ctrl.ALUOp = "LUI"
    THEN [raised |-> "None", result |-> decoded.imm_u_sext,
          Z |-> IF AllZero(decoded.imm_u_sext) THEN 1 ELSE 0]
    ELSE LET r == ALU_execute(rs1_data, alu_b, ctrl.ALUOp)
         IN  [raised |-> r.raised, result |-> r.result, Z |-> r.Z]

\* memory stage, cpu.py lines 97-111: faults are caught inside the cycle
MemoryStage(ctrl, dmem, alu_result, rs2_data) ==
    LET rd == IF ctrl.MemRead = 1
              THEN DataMemory_read_word(dmem, bits_to_int(alu_result))
              ELSE [raised |-> "None", value |-> Zeros(32)]
        wr == IF ctrl.MemWrite = 1
              THEN DataMemory_write_word(dmem, bits_to_int(alu_result), rs2_data)
              ELSE [raised |-> "None", memory |-> dmem]
    IN  [ mem_data |-> IF rd.raised = "None" THEN rd.value ELSE Zeros(32),
          dmem |-> wr.memory ]

\* x & 0xFFFFFFFE for 0 <= x < 2^32
ClearBit0(x) == (x \div 2) * 2

\* next PC, cpu.py lines 120-137
NextPC(ctrl, instr_name, decoded, pc, rs1_data, rs2_data) ==
    LET branch_taken ==
            IF ctrl.Branch = 1
            THEN (IF instr_name = "BEQ" THEN rs1_data = rs2_data
                  ELSE IF instr_name = "BNE" THEN rs1_data # rs2_data
                  ELSE FALSE)
            ELSE FALSE
    IN  IF ctrl.Jump = 1
        THEN (IF instr_name = "JAL" THEN pc + bits_to_int(decoded.imm_j_sext)
              ELSE IF instr_name = "JALR"
              THEN ClearBit0(bits_to_int(rs1_data) + bits_to_int(decoded.imm_i_sext))
              ELSE pc + 4)
        ELSE IF branch_taken THEN pc + bits_to_int(decoded.imm_b_sext)
        ELSE pc + 4

\* cpu.py lines 58-149: the cycle after fetch, decode and the halt tests
Datapath(cpu, decoded, instr_name) ==
    LET ctrl == generate_control_signals(decoded, instr_name)
        rs1 == RegisterFile_read(cpu.reg_file, decoded.rs1)
        rs2 == RegisterFile_read(cpu.reg_file, decoded.rs2)
    IN  IF rs1.raised # "None" THEN Raise(cpu, rs1.raised)
        ELSE IF rs2.raised # "None" THEN Raise(cpu, rs2.raised)
        ELSE
        LET alu_b == SelectALUB(ctrl, decoded, rs2.value)
            ex == ExecuteStage(ctrl, decoded, rs1.value, rs2.value, alu_b)
        IN  IF ex.raised # "None" THEN Raise(cpu, ex.raised)
            ELSE
            LET mem == MemoryStage(ctrl, cpu.dmem, ex.result, rs2.value)
                write_data == IF ctrl.MemToReg = 1 THEN mem.mem_data
                              ELSE IF ctrl.Jump = 1 THEN int_to_bits(cpu.pc + 4, 32)
                              ELSE ex.result
                next_pc == NextPC(ctrl, instr_name, decoded, cpu.pc, rs1.value, rs2.value)
                wb == IF ctrl.RegWrite = 1
                      THEN RegisterFile_write(cpu.reg_file, decoded.rd, write_data, TRUE)
                      ELSE [raised |-> "None", rf |-> cpu.reg_file]
            IN  IF wb.raised # "None"
                THEN Raise([cpu EXCEPT !.dmem = mem.dmem], wb.raised)
                ELSE Return([cpu EXCEPT !.dmem = mem.dmem,
                                         !.pc = next_pc,
                                         !.reg_file = RegisterFile_clock_edge(wb.rf),
                                         !.cycle_count = @ + 1,
                                         !.instruction_count = @ + 1], "True")

\* the halt-sentinel test dropped
IsZeroWord_dropped(instruction) == FALSE

\* cpu.py lines 44-47: the all-zeros halt sentinel
IsZeroWord(instruction) == AllZero(instruction) /\ bits_to_int(instruction) = 0

\* cpu.py lines 52-56: JAL x0, 0
IsSelfJump(decoded, instr_name) ==
    instr_name = "JAL" /\ decoded.rd = 0 /\ bits_to_int(decoded.imm_j_sext) = 0

\* execute_cycle without the test of the halted flag
execute_cycle_ignoring_halted(cpu) ==
    LET f == InstructionMemory_read(cpu.imem, cpu.pc)
    IN  IF f.raised # "None" THEN Return([cpu EXCEPT !.halted = TRUE], "False")
        ELSE IF IsZeroWord(f.value) THEN Return([cpu EXCEPT !.halted = TRUE], "False")
        ELSE LET decoded == decode(f.value)
                 instr_name == get_instruction_name(decoded)
             IN  IF IsSelfJump(decoded, instr_name)
                 THEN Return([cpu EXCEPT !.halted = TRUE], "False")
                 ELSE Datapath(cpu, decoded, instr_name)

execute_cycle(cpu) ==
    IF cpu.halted THEN Return(cpu, "False")
    ELSE LET f == InstructionMemory_read(cpu.imem, cpu.pc)
         IN  IF f.raised # "None" THEN Return([cpu EXCEPT !.halted = TRUE], "False")
             ELSE IF IsZeroWord(f.value) THEN Return([cpu EXCEPT !.halted = TRUE], "False")
             ELSE LET decoded == decode(f.value)
                      instr_name == get_instruction_name(decoded)
                  IN  IF IsSelfJump(decoded, instr_name)
                      THEN Return([cpu EXCEPT !.halted = TRUE], "False")
                      ELSE Datapath(cpu, decoded, instr_name)

\* the while loop of CPU.run; RunStep is the loop body after the call of
\* execute_cycle, whose outcome is r
RECURSIVE RunLoop(_, _)
RunStep(r, max_cycles) ==
    IF r.raised # "None" THEN r
    ELSE IF r.ret = "True" THEN RunLoop(r.cpu, max_cycles)
    ELSE Return(r.cpu, "None")

RunLoop(cpu, max_cycles) ==
    IF ~cpu.halted /\ cpu.cycle_count < max_cycles
    THEN RunStep(execute_cycle(cpu), max_cycles)
    ELSE Return(cpu, "None")

\* CPU.run: ret is the returned dictionary
run(cpu, max_cycles) ==
    LET r == RunLoop(cpu, max_cycles)
    IN  IF r.raised # "None" THEN r
        ELSE Return(r.cpu, [ cycles |-> r.cpu.cycle_count,
                              instructions |-> r.cpu.instruction_count,
                              halted |-> r.cpu.halted,
                              final_pc |-> r.cpu.pc,
                              initial_pc |-> cpu.pc ])

\* the register loop of CPU.reset: write(i, [0]*32, enable=False) for i = 0..31
RECURSIVE ResetLoop(_, _)
ResetLoop(rf, i) ==
    IF i >= NumRegs THEN rf
    ELSE ResetLoop(RegisterFile_write(rf, i, Zeros(32), FALSE).rf, i + 1)

\* a reset that also starts from an empty data memory
reset_clearing_dmem(cpu) ==
    Return([cpu EXCEPT !.pc = 0,
                       !.halted = FALSE,
                       !.cycle_count = 0,
                       !.instruction_count = 0,
                       !.dmem = EmptyMemory,
                       !.reg_file = RegisterFile_clock_edge(ResetLoop(cpu.reg_file, 0))],
           "None")

reset(cpu) ==
    Return([cpu EXCEPT !.pc = 0,
                       !.halted = FALSE,
                       !.cycle_count = 0,
                       !.instruction_count = 0,
                       !.reg_file = RegisterFile_clock_edge(ResetLoop(cpu.reg_file, 0))],
           "None")

(***************************************************************************)
(* Inputs of the calls.  A word is written as its eight hex digits.        *)
(***************************************************************************)
W(digits) == from_hex_string(digits, 32)

I_ZERO       == W(<<0, 0, 0, 0, 0, 0, 0, 0>>)
I_JAL_X0_0   == W(<<0, 0, 0, 0, 0, 0, 6, 15>>)     \* JAL  x0, 0
I_ADDI_10    == W(<<0, 0, 10, 0, 0, 0, 9, 3>>)     \* ADDI x1, x0, 10
I_AND        == W(<<0, 0, 2, 0, 15, 1, 11, 3>>)    \* AND  x3, x1, x2
I_ANDI       == W(<<0, 0, 3, 0, 15, 1, 9, 3>>)     \* ANDI x3, x1, 3
I_BEQ        == W(<<0, 0, 2, 0, 8, 4, 6, 3>>)      \* BEQ  x1, x2, +8
I_LUI_X1     == W(<<0, 0, 0, 0, 1, 0, 11, 7>>)     \* LUI  x1, 0x1
I_LUI_X2     == W(<<0, 0, 0, 0, 5, 1, 3, 7>>)      \* LUI  x2, 0x5
I_LUI_X0     == W(<<0, 0, 0, 0, 1, 0, 3, 7>>)      \* LUI  x0, 0x1
I_LUI_X16    == W(<<0, 0, 0, 0, 1, 8, 3, 7>>)      \* LUI  x16, 0x1
I_SLLI       == W(<<0, 0, 1, 0, 9, 0, 9, 3>>)      \* SLLI x1, x1, 1
I_SLL        == W(<<0, 0, 2, 0, 9, 0, 11, 3>>)     \* SLL  x1, x1, x2
I_JAL_X2_8   == W(<<0, 0, 8, 0, 0, 1, 6, 15>>)     \* JAL  x2, 8
I_LW_2       == W(<<0, 0, 2, 0, 2, 0, 8, 3>>)      \* LW   x1, 2(x0)
I_SW_2       == W(<<0, 0, 1, 0, 2, 1, 2, 3>>)      \* SW   x1, 2(x0)
I_CUSTOM0    == W(<<0, 0, 0, 0, 0, 0, 0, 11>>)     \* opcode 0x0B, not RV32I

W15 == W(<<0, 0, 0, 0, 0, 0, 0, 15>>)

Programs ==
    { << I_ZERO, I_LUI_X1 >>,
      << I_JAL_X0_0 >>,
      << I_ADDI_10, I_JAL_X0_0 >>,
      << I_LUI_X1, I_AND >>,
      << I_ANDI >>,
      << I_BEQ, I_LUI_X1 >>,
      << I_LUI_X1, I_SLLI, I_LUI_X0, I_SLL >>,
      << I_LUI_X2, I_LUI_X16 >>,
      << I_JAL_X2_8 >>,
      << I_LW_2 >>,
      << I_SW_2 >>,
      << I_CUSTOM0 >> }

StartAddresses == {0, ImemBase + ImemSize - 4}

WriteAddrs == {0, 2}

WriteData == {W15}

DataAddrs == {DmemBase, DmemBase + 2}

(***************************************************************************)
(* State: the fields of the CPU object, the number of load_program calls   *)
(* made so far, and the last call made on the CPU: its name, arguments,    *)
(* the PC, halted flag and cycle count it started from, and its outcome.   *)
(***************************************************************************)
VARIABLES reg_file, imem, dmem, pc, halted, cycle_count, instruction_count,
          loads, last

vars == << reg_file, imem, dmem, pc, halted, cycle_count, instruction_count,
           loads, last >>

CPU ==
    [ reg_file |-> reg_file, imem |-> imem, dmem |-> dmem, pc |-> pc,
      halted |-> halted, cycle_count |-> cycle_count,
      instruction_count |-> instruction_count ]

Becomes(cpu) ==
    /\ reg_file' = cpu.reg_file
    /\ imem' = cpu.imem
    /\ dmem' = cpu.dmem
    /\ pc' = cpu.pc
    /\ halted' = cpu.halted
    /\ cycle_count' = cpu.cycle_count
    /\ instruction_count' = cpu.instruction_count

Call(op, args, r) ==
    /\ Becomes(r.cpu)
    /\ last' = [op |-> op, args |-> args,
                before |-> [pc |-> pc, halted |-> halted, cycle_count |-> cycle_count],
                raised |-> r.raised, ret |-> r.ret]

Init ==
    /\ reg_file = NewCPU.reg_file
    /\ imem = NewCPU.imem
    /\ dmem = NewCPU.dmem
    /\ pc = NewCPU.pc
    /\ halted = NewCPU.halted
    /\ cycle_count = NewCPU.cycle_count
    /\ instruction_count = NewCPU.instruction_count
    /\ loads = 0
    /\ last = [op |-> "init", args |-> << >>,
               before |-> [pc |-> 0, halted |-> FALSE, cycle_count |-> 0],
               raised |-> "None", ret |-> "None"]

LoadProgram ==
    /\ loads < MaxLoads
    /\ \E instructions \in Programs, start_address \in StartAddresses :
          Call("load_program", << instructions, start_address >>,
               CPU_load_program(CPU, instructions, start_address))
    /\ loads' = loads + 1

ExecuteCycle ==
    /\ Call("execute_cycle", << >>, execute_cycle(CPU))
    /\ UNCHANGED loads

Run ==
    /\ \E max_cycles \in 0..MaxRunCycles :
          Call("run", << max_cycles >>, run(CPU, max_cycles))
    /\ UNCHANGED loads

Reset ==
    /\ Call("reset", << >>, reset(CPU))
    /\ UNCHANGED loads

RegWrite ==
    /\ \E addr \in WriteAddrs, data \in WriteData, enable \in BOOLEAN :
          LET r == RegisterFile_write(reg_file, addr, data, enable)
          IN  Call("write", << addr, data, enable >>,
                   [cpu |-> [CPU EXCEPT !.reg_file = r.rf],
                    raised |-> r.raised, ret |-> "None"])
    /\ UNCHANGED loads

ClockEdge ==
    /\ Call("clock_edge", << >>,
            Return([CPU EXCEPT !.reg_file = RegisterFile_clock_edge(reg_file)], "None"))
    /\ UNCHANGED loads

DmemWrite ==
    /\ \E address \in DataAddrs, data \in WriteData :
          LET r == DataMemory_write_word(dmem, address, data)
          IN  Call("write_word", << address, data >>,
                   [cpu |-> [CPU EXCEPT !.dmem = r.memory],
                    raised |-> r.raised, ret |-> "None"])
    /\ UNCHANGED loads

Next ==
    \/ LoadProgram
    \/ ExecuteCycle
    \/ Run
    \/ Reset
    \/ RegWrite
    \/ ClockEdge
    \/ DmemWrite

Spec == Init /\ [][Next]_vars

(***************************************************************************)
(* Helpers of the properties.                                              *)
(***************************************************************************)
\* the word the CPU fetches at address a (raised # "None" when a is unaligned)
Fetch(a) == InstructionMemory_read(imem, a)

\* the last call was execute_cycle, entered with the halted flag false
CycleFromRunning == last.op = "execute_cycle" /\ ~last.before.halted

\* the word the last call fetched first
FetchedWord == Fetch(last.before.pc).value

FetchedName == get_instruction_name(decode(FetchedWord))

FetchedCtrl == generate_control_signals(decode(FetchedWord), FetchedName)

(***************************************************************************)
(* C1: whatever writes, clock edges and cycles have happened (including    *)
(* cycles of instructions with rd = 0 and RegWrite = 1), reading register  *)
(* 0 returns the all-zeros vector.                                         *)
(***************************************************************************)
C1_X0ReadsZero ==
    LET r == RegisterFile_read(reg_file, 0)
    IN  r.raised = "None" /\ r.value = Zeros(Width)

\* a cycle that returned True has just executed an instruction with rd = 0
\* and RegWrite = 1
C1_Witness ==
    /\ CycleFromRunning
    /\ last.raised = "None" /\ last.ret = "True"
    /\ Fetch(last.before.pc).raised = "None"
    /\ decode(FetchedWord).rd = 0
    /\ FetchedCtrl.RegWrite = 1

(***************************************************************************)
(* The standard RV32I reading of an instruction word w (bit n of the word  *)
(* is w[32 - n]), and bit-vector arithmetic, used to state what the        *)
(* instructions are meant to do.                                           *)
(***************************************************************************)
StdOpcode(w) == UnsignedValue(Slice(w, 25, 32))
StdRd(w)     == UnsignedValue(Slice(w, 20, 25))
StdFunct3(w) == UnsignedValue(Slice(w, 17, 20))
StdRs1(w)    == UnsignedValue(Slice(w, 12, 17))
StdRs2(w)    == UnsignedValue(Slice(w, 7, 12))
StdFunct7(w) == UnsignedValue(Slice(w, 0, 7))
StdImmI(w)   == sign_extend(Slice(w, 0, 12), 32)
StdImmB(w)   == sign_extend(<< w[1], w[25] >> \o Slice(w, 1, 7) \o Slice(w, 20, 24) \o << 0 >>, 32)

Add32(a, b) == RippleLoop(a, b, Width, 0, << >>).sum_bits
And32(a, b) == [i \in 1..Width |-> IF a[i] = 1 /\ b[i] = 1 THEN 1 ELSE 0]
Or32(a, b)  == [i \in 1..Width |-> IF a[i] = 1 \/ b[i] = 1 THEN 1 ELSE 0]
Xor32(a, b) == [i \in 1..Width |-> IF a[i] # b[i] THEN 1 ELSE 0]

\* this step is an execute_cycle call entered with halted false whose fetch
\* at PC succeeds
CycleStep ==
    /\ last'.op = "execute_cycle"
    /\ ~halted
    /\ Fetch(pc).raised = "None"

Unchanged_PC_Registers_Counters ==
    /\ pc' = pc
    /\ reg_file' = reg_file
    /\ cycle_count' = cycle_count
    /\ instruction_count' = instruction_count

(***************************************************************************)
(* C2: when the CPU is not halted and the word fetched at PC is all zeros  *)
(* (stored, or an address with nothing loaded), execute_cycle sets halted, *)
(* returns False and leaves PC, registers, data memory and both counters   *)
(* unchanged.                                                              *)
(***************************************************************************)
C2_ZeroWordHalts ==
    [][ (CycleStep /\ AllZero(Fetch(pc).value))
          => /\ halted'
             /\ last'.raised = "None" /\ last'.ret = "False"
             /\ Unchanged_PC_Registers_Counters
             /\ dmem' = dmem ]_vars

\* a cycle entered with halted false has just fetched a stored zero word
C2_Witness ==
    /\ CycleFromRunning
    /\ last.before.pc \in DOMAIN imem
    /\ imem[last.before.pc] = Zero32
    /\ halted
    /\ last.ret = "False"

(***************************************************************************)
(* C3: when the CPU is not halted and the word fetched at PC is JAL x0, 0  *)
(* (0x0000006F), execute_cycle sets halted in that cycle, returns False    *)
(* and leaves PC, registers and counters unchanged.                        *)
(***************************************************************************)
C3_SelfJumpHalts ==
    [][ (CycleStep /\ Fetch(pc).value = I_JAL_X0_0)
          => /\ halted'
             /\ last'.raised = "None" /\ last'.ret = "False"
             /\ Unchanged_PC_Registers_Counters ]_vars

(***************************************************************************)
(* C4: every call run(max_cycles) returns, executes at most max_cycles     *)
(* cycles, and reports 'cycles' = cycle_count and 'halted' = the halted    *)
(* flag at return.                                                         *)
(***************************************************************************)
C4_RunReturnsWithinBound ==
    last.op = "run"
      => /\ last.raised = "None"
         /\ cycle_count - last.before.cycle_count <= last.args[1]
         /\ last.ret.cycles = cycle_count
         /\ last.ret.halted = halted

(***************************************************************************)
(* C5: a write(addr, data, enable=True) with addr # 0 is only staged: a    *)
(* read(addr) after the write and before the next clock_edge still returns *)
(* the value latched before the write.                                     *)
(***************************************************************************)
C5_WriteIsStaged ==
    [][ (last'.op = "write" /\ last'.args[1] # 0 /\ last'.args[3] = TRUE)
          => RegisterFile_read(reg_file', last'.args[1]).value
               = RegisterFile_read(reg_file, last'.args[1]).value ]_vars

(***************************************************************************)
(* C6: after reset, every one of the 32 registers reads as all zeros, both *)
(* counters are 0 and halted is false.                                     *)
(***************************************************************************)
C6_ResetZeroesRegisters ==
    last.op = "reset"
      => /\ \A a \in RegAddrs : RegisterFile_read(reg_file, a).value = Zeros(Width)
         /\ cycle_count = 0
         /\ instruction_count = 0
         /\ ~halted

(***************************************************************************)
(* C7: reset leaves the instruction memory image and the data memory image *)
(* exactly as they were before the call.                                   *)
(***************************************************************************)
C7_ResetKeepsMemories ==
    [][ last'.op = "reset" => (imem' = imem /\ dmem' = dmem) ]_vars

\* a reset has just run on a CPU with a loaded program and a stored data word
C7_Witness ==
    /\ last.op = "reset"
    /\ DOMAIN imem # {}
    /\ DOMAIN dmem # {}

(***************************************************************************)
(* C8: executing ADDI rd, rs1, imm with rd # 0 writes rs1 + sign-extended  *)
(* imm (mod 2^32) to rd and advances PC by 4, imm being instruction bits   *)
(* 31..20.                                                                 *)
(***************************************************************************)
C8_ADDI ==
    [][ LET w == Fetch(pc).value
        IN  (CycleStep /\ StdOpcode(w) = 19 /\ StdFunct3(w) = 0 /\ StdRd(w) # 0)
              => /\ last'.raised = "None" /\ last'.ret = "True"
                 /\ pc' = pc + 4
                 /\ reg_file'[StdRd(w)].data = Add32(reg_file[StdRs1(w)].data, StdImmI(w)) ]_vars

(***************************************************************************)
(* C9: a cycle whose instruction is AND, OR or XOR (or ANDI, ORI, XORI)    *)
(* with rd # 0 completes without raising and writes the bitwise and / or / *)
(* xor of the two operands to rd.                                          *)
(***************************************************************************)
C9_Logic ==
    [][ LET w == Fetch(pc).value
            a == reg_file[StdRs1(w)].data
            b == IF StdOpcode(w) = 51 THEN reg_file[StdRs2(w)].data ELSE StdImmI(w)
        IN  (/\ CycleStep
             /\ \/ StdOpcode(w) = 51 /\ StdFunct7(w) = 0
                \/ StdOpcode(w) = 19
             /\ StdFunct3(w) \in {7, 6, 4}
             /\ StdRd(w) # 0)
              => /\ last'.raised = "None" /\ last'.ret = "True"
                 /\ reg_file'[StdRd(w)].data =
                      CASE StdFunct3(w) = 7 -> And32(a, b)
                        [] StdFunct3(w) = 6 -> Or32(a, b)
                        [] StdFunct3(w) = 4 -> Xor32(a, b) ]_vars

(***************************************************************************)
(* C10: for BEQ (BNE) at address P the next PC is P + offset when rs1      *)
(* equals (differs from) rs2 and P + 4 otherwise, offset being the         *)
(* standard B-immediate.                                                   *)
(***************************************************************************)
C10_Branch ==
    [][ LET w == Fetch(pc).value
            equal == reg_file[StdRs1(w)].data = reg_file[StdRs2(w)].data
            taken == IF StdFunct3(w) = 0 THEN equal ELSE ~equal
        IN  (CycleStep /\ StdOpcode(w) = 99 /\ StdFunct3(w) \in {0, 1})
              => /\ last'.raised = "None" /\ last'.ret = "True"
                 /\ pc' = IF taken THEN pc + bits_to_int(StdImmB(w)) ELSE pc + 4 ]_vars

(***************************************************************************)
(* The standard J- and S-immediates of a word, and the effective address   *)
(* rs1 + immediate of a load or store.                                     *)
(***************************************************************************)
StdImmJ(w) ==
    sign_extend(<< w[1] >> \o Slice(w, 12, 20) \o << w[12] >> \o Slice(w, 1, 11) \o << 0 >>, 32)

StdImmS(w) == sign_extend(Slice(w, 0, 7) \o Slice(w, 20, 25), 32)

EffectiveAddress(w) ==
    bits_to_int(Add32(reg_file[StdRs1(w)].data,
                      IF StdOpcode(w) = 35 THEN StdImmS(w) ELSE StdImmI(w)))

(***************************************************************************)
(* C11: a cycle that fetches JAL rd, offset at address P returns True,     *)
(* sets the next PC to P + offset, offset being the standard J-immediate,  *)
(* and for rd # 0 leaves P + 4 in rd.                                      *)
(***************************************************************************)
C11_JAL ==
    [][ LET w == Fetch(pc).value
        IN  (CycleStep /\ StdOpcode(w) = 111 /\ StdRd(w) # 0)
              => /\ last'.raised = "None" /\ last'.ret = "True"
                 /\ pc' = pc + bits_to_int(StdImmJ(w))
                 /\ reg_file'[StdRd(w)].data = int_to_bits(pc + 4, 32) ]_vars

(***************************************************************************)
(* C12: a cycle that fetches LW or SW whose effective address is unaligned *)
(* or outside the data window returns True without halting, advances PC by *)
(* 4 and increments both counters; the LW leaves all-zeros in rd and the   *)
(* SW leaves data memory unchanged.                                        *)
(***************************************************************************)
C12_MemoryFaultContinues ==
    [][ LET w == Fetch(pc).value
        IN  (/\ CycleStep
             /\ StdOpcode(w) \in {3, 35} /\ StdFunct3(w) = 2
             /\ DataMemory_read_word(dmem, EffectiveAddress(w)).raised # "None")
              => /\ last'.raised = "None" /\ last'.ret = "True"
                 /\ ~halted'
                 /\ pc' = pc + 4
                 /\ cycle_count' = cycle_count + 1
                 /\ instruction_count' = instruction_count + 1
                 /\ (StdOpcode(w) = 3 /\ StdRd(w) # 0)
                      => reg_file'[StdRd(w)].data = Zeros(Width)
                 /\ StdOpcode(w) = 35 => dmem' = dmem ]_vars

(***************************************************************************)
(* C13: a cycle that fetches a non-zero word whose fields the decoder      *)
(* reads as the standard ones and whose name the control unit does not     *)
(* handle changes no register and no data-memory word, does not halt and   *)
(* sets the next PC to PC + 4.                                             *)
(***************************************************************************)
UnhandledNames == {"UNKNOWN", "BLT", "BGE", "BLTU", "BGEU", "LB", "LH", "SB", "SH"}

C13_UnhandledIsNop ==
    [][ LET w == Fetch(pc).value
            d == decode(w)
        IN  (/\ CycleStep
             /\ ~AllZero(w)
             /\ d.opcode_int = StdOpcode(w) /\ d.funct3 = StdFunct3(w)
             /\ get_instruction_name(d) \in UnhandledNames)
              => /\ last'.raised = "None"
                 /\ \A a \in RegAddrs : reg_file'[a].data = reg_file[a].data
                 /\ dmem' = dmem
                 /\ ~halted'
                 /\ pc' = pc + 4 ]_vars

(***************************************************************************)
(* The units used on their own.  UnitSpec calls the decoder's naming, the  *)
(* ALU, the multiply/divide unit and the shifter on operands drawn from    *)
(* the sets below; the call and its outcome are recorded in last, the CPU  *)
(* is left as constructed.                                                 *)
(***************************************************************************)
Operands ==
    { W(<<0, 0, 0, 0, 0, 0, 0, 0>>),
      W(<<0, 0, 0, 0, 0, 0, 0, 1>>),
      W(<<0, 0, 0, 0, 0, 0, 0, 3>>),
      W(<<15, 15, 15, 15, 15, 15, 15, 9>>),
      W(<<15, 15, 15, 15, 15, 15, 15, 15>>),
      W(<<8, 0, 0, 0, 0, 0, 0, 0>>),
      W(<<7, 15, 15, 15, 15, 15, 15, 15>>) }

\* opcode 0x33 with funct7 = 0x01 (the RV32M encodings), rd = 3, rs1 = 1, rs2 = 2
RV32MWords == { W(<<0, 2, 2, 0, 8 + funct3, 1, 11, 3>>) : funct3 \in 0..7 }

NameWords == RV32MWords \cup {I_ADDI_10, I_SLL, I_LUI_X1, I_LW_2, I_CUSTOM0}

ShiftData == { W(<<8, 0, 0, 0, 0, 0, 0, 1>>), W(<<7, 15, 15, 15, 15, 15, 15, 14>>), W15 }

ShiftAmounts ==
    { <<0, 0, 0, 0, 0>>, <<0, 0, 0, 0, 1>>, <<1, 1, 1, 1, 1>>,
      <<1, 0, 0, 0, 0, 0>>, <<1, 0, 0, 0, 0, 1>>, <<0, 1, 0, 0, 0, 1, 0, 0>>,
      Zeros(26) \o <<1, 0, 0, 0, 1, 1>> }

ShiftOps == {"SLL", "SRL", "SRA"}

\* the units keep no state between calls: each call is made on fresh units
UnitCall(op, args, raised, ret) ==
    /\ last.op = "init"
    /\ last' = [op |-> op, args |-> args, before |-> last.before,
                raised |-> raised, ret |-> ret]
    /\ UNCHANGED << reg_file, imem, dmem, pc, halted, cycle_count, instruction_count >>

NameInstruction ==
    /\ \E instruction \in NameWords :
           UnitCall("get_instruction_name", << instruction >>, "None",
                    get_instruction_name(decode(instruction)))
    /\ UNCHANGED loads

AluAdd ==
    /\ \E a \in Operands, b \in Operands :
           UnitCall("add", << a, b >>, ALU_add(a, b).raised, ALU_add(a, b))
    /\ UNCHANGED loads

AluSub ==
    /\ \E a \in Operands, b \in Operands :
           UnitCall("sub", << a, b >>, ALU_sub(a, b).raised, ALU_sub(a, b))
    /\ UNCHANGED loads

MduOps == {"mul", "mulh", "mulhu", "mulhsu", "div", "divu", "rem", "remu"}

MduCall ==
    /\ \E op \in MduOps, rs1 \in Operands, rs2 \in Operands :
           UnitCall(op, << rs1, rs2 >>, MDU(op, rs1, rs2).raised, MDU(op, rs1, rs2))
    /\ UNCHANGED loads

ShifterExecute ==
    /\ \E data \in ShiftData, shift_amount_bits \in ShiftAmounts, operation \in ShiftOps :
           UnitCall("shift", << data, shift_amount_bits, operation >>, "None",
                    Shifter_execute(data, shift_amount_bits, operation))
    /\ UNCHANGED loads

\* values inside and outside [-2^31, 2^31)
EncodeValues ==
    { bits_to_pyint(o) : o \in Operands }
      \cup { Pow2(31), IntSub(IntNeg(Pow2(31)), IntOf(FALSE, << 1 >>)),
             IntAdd(Pow2(32), IntOf(FALSE, << 5 >>)), IntNeg(Pow2(32)) }

RoundTrip ==
    /\ \E value \in EncodeValues :
           UnitCall("round_trip", << value >>, "None",
                    [ encoded |-> encode_twos_complement(value, 32),
                      decoded |-> decode_twos_complement(
                                      encode_twos_complement(value, 32).hex) ])
    /\ UNCHANGED loads

UnitNext ==
    \/ NameInstruction
    \/ AluAdd
    \/ AluSub
    \/ MduCall
    \/ ShifterExecute
    \/ RoundTrip

UnitSpec == Init /\ [][UnitNext]_vars

(***************************************************************************)
(* Integers of the properties: the signed and the unsigned reading of a    *)
(* 32-bit vector, and x mod 2^32 as a vector for x > -2^32.                *)
(***************************************************************************)
SignedOf(bits) == bits_to_pyint(bits)

UnsignedOf(bits) == IntOf(FALSE, NatOfBits(Reverse(bits)))

Mod32(x) == pyint_to_bits(Low32(IF x.neg THEN IntAdd(x, Pow2(32)) ELSE x), 32)

InSignedRange(x) == ~IntLess(x, IntNeg(Pow2(31))) /\ IntLess(x, Pow2(31))

(***************************************************************************)
(* C14: get_instruction_name returns UNKNOWN for every opcode-0x33 word    *)
(* whose funct7 is neither 0x00 nor 0x20, whatever its funct3.             *)
(***************************************************************************)
C14_NonTableIsUnknown ==
    (/\ last.op = "get_instruction_name"
     /\ StdOpcode(last.args[1]) = 51
     /\ StdFunct7(last.args[1]) \notin {0, 32})
      => last.ret = "UNKNOWN"

(***************************************************************************)
(* C15: ALU.add(a, b) returns result = (a + b) mod 2^32, N = MSB of the    *)
(* result, Z = 1 iff the result is zero; when the signed sum is in         *)
(* [-2^31, 2^31) V is 0 and the result read as signed is the sum, and      *)
(* otherwise V is 1.                                                       *)
(***************************************************************************)
C15_AluAdd ==
    last.op = "add" =>
        /\ last.raised = "None"
        /\ LET a == last.args[1]
               b == last.args[2]
               sum == IntAdd(SignedOf(a), SignedOf(b))
           IN  /\ last.ret.result = Mod32(IntAdd(UnsignedOf(a), UnsignedOf(b)))
               /\ last.ret.N = last.ret.result[1]
               /\ last.ret.Z = (IF AllZero(last.ret.result) THEN 1 ELSE 0)
               /\ InSignedRange(sum) => (last.ret.V = 0 /\ SignedOf(last.ret.result) = sum)
               /\ ~InSignedRange(sum) => last.ret.V = 1

(***************************************************************************)
(* C16: ALU.sub(a, b) returns result = (a - b) mod 2^32 and C = 1 exactly  *)
(* when a >= b as unsigned integers (the carry-out of a + NOT(b) + 1).     *)
(***************************************************************************)
C16_AluSub ==
    last.op = "sub" =>
        /\ last.raised = "None"
        /\ LET a == last.args[1]
               b == last.args[2]
           IN  /\ last.ret.result = Mod32(IntSub(UnsignedOf(a), UnsignedOf(b)))
               /\ last.ret.C = (IF IntLess(UnsignedOf(a), UnsignedOf(b)) THEN 0 ELSE 1)
               /\ last.ret.C = RippleLoop(a, Invert(b), Width, 1, << >>).carry

(***************************************************************************)
(* The operands of a divide call and the special pair -2^31 / -1.          *)
(***************************************************************************)
IntMin32 == << 1 >> \o Zeros(Width - 1)

MinusOne32 == Fill(1, Width)

DivideOps == {"div", "divu", "rem", "remu"}

SignedDivideCall == last.op \in {"div", "rem"}

OverflowPair == SignedDivideCall /\ last.args[1] = IntMin32 /\ last.args[2] = MinusOne32

(***************************************************************************)
(* C17: with divisor 0, div and divu return the all-ones quotient and rem  *)
(* and remu return the dividend, with overflow 0; signed -2^31 / -1 gives  *)
(* quotient 0x80000000, remainder 0 and overflow 1; overflow is 0 for      *)
(* every other input.                                                      *)
(***************************************************************************)
C17_DivisionCorners ==
    last.op \in DivideOps =>
        /\ last.raised = "None"
        /\ AllZero(last.args[2]) =>
             /\ last.op \in {"div", "divu"} => last.ret.rd = Fill(1, Width)
             /\ last.op \in {"rem", "remu"} => last.ret.rd = last.args[1]
             /\ last.ret.overflow = 0
        /\ OverflowPair =>
             /\ last.op = "div" => last.ret.rd = IntMin32
             /\ last.op = "rem" => last.ret.rd = Zeros(Width)
             /\ last.ret.overflow = 1
        /\ ~OverflowPair => last.ret.overflow = 0

C17_Witness ==
    /\ last.op = "div" /\ OverflowPair
    /\ last.ret.rd = IntMin32 /\ last.ret.overflow = 1

(***************************************************************************)
(* C18: for divisor # 0, the pair -2^31 / -1 excluded, the quotient q and  *)
(* the remainder r of a signed (unsigned) division satisfy                 *)
(* dividend = q * divisor + r with |r| < |divisor|; in the signed case q   *)
(* is rounded toward zero and r is zero or has the sign of the dividend.   *)
(***************************************************************************)
QuotientBits ==
    IF last.op \in {"div", "divu"} THEN last.ret.rd
    ELSE IF last.op = "rem" THEN div(last.args[1], last.args[2]).rd
    ELSE divu(last.args[1], last.args[2]).rd

RemainderBits ==
    IF last.op \in {"rem", "remu"} THEN last.ret.rd
    ELSE IF last.op = "div" THEN rem(last.args[1], last.args[2]).rd
    ELSE remu(last.args[1], last.args[2]).rd

ReadAs(bits) == IF SignedDivideCall THEN SignedOf(bits) ELSE UnsignedOf(bits)

C18_DivisionIdentity ==
    (last.op \in DivideOps /\ ~AllZero(last.args[2]) /\ ~OverflowPair) =>
        LET dividend == ReadAs(last.args[1])
            divisor == ReadAs(last.args[2])
            q == ReadAs(QuotientBits)
            r == ReadAs(RemainderBits)
        IN  /\ last.raised = "None"
            /\ IntAdd(IntMul(q, divisor), r) = dividend
            /\ NatLess(r.mag, divisor.mag)
            /\ ~NatLess(dividend.mag, NatMul(q.mag, divisor.mag))
            /\ r = PyZero \/ r.neg = dividend.neg

C18_Witness ==
    /\ last.op = "div"
    /\ last.args = << W(<<15, 15, 15, 15, 15, 15, 15, 9>>), W(<<0, 0, 0, 0, 0, 0, 0, 3>>) >>
    /\ last.ret.rd = W(<<15, 15, 15, 15, 15, 15, 15, 14>>)

(***************************************************************************)
(* C19: mulh returns the high 32 bits of signed(rs1) * signed(rs2), mulhu  *)
(* those of unsigned(rs1) * unsigned(rs2) and mulhsu those of              *)
(* signed(rs1) * unsigned(rs2): the product minus high * 2^32 is the low   *)
(* word, a value in [0, 2^32).                                             *)
(***************************************************************************)
C19_HighHalves ==
    last.op \in {"mulh", "mulhu", "mulhsu"} =>
        LET rs1 == IF last.op = "mulhu" THEN UnsignedOf(last.args[1]) ELSE SignedOf(last.args[1])
            rs2 == IF last.op = "mulh" THEN SignedOf(last.args[2]) ELSE UnsignedOf(last.args[2])
            high == IF last.op = "mulhu" THEN UnsignedOf(last.ret.rd) ELSE SignedOf(last.ret.rd)
            low == IntSub(IntMul(rs1, rs2), IntMul(high, Pow2(32)))
        IN  /\ last.raised = "None"
            /\ ~low.neg
            /\ IntLess(low, Pow2(32))

(***************************************************************************)
(* C20: Shifter.execute(data, s, op) equals Shifter.execute(data, s & 0x1F,*)
(* op); with k = s & 0x1F, SLL drops the k leftmost bits and appends k     *)
(* zeros, SRL prepends k zeros, SRA prepends k copies of the MSB, each     *)
(* keeping the width, and k = 0 returns the data.                          *)
(***************************************************************************)
C20_ShiftMask ==
    last.op = "shift" =>
        LET data == last.args[1]
            k == UnsignedValue(last.args[2]) % 32
        IN  /\ last.ret = Shifter_execute(data, int_to_bits(k, 5), last.args[3])
            /\ last.args[3] = "SLL" => last.ret = SubSeq(data, k + 1, Width) \o Zeros(k)
            /\ last.args[3] = "SRL" => last.ret = Zeros(k) \o SubSeq(data, 1, Width - k)
            /\ last.args[3] = "SRA" => last.ret = Fill(data[1], k) \o SubSeq(data, 1, Width - k)
            /\ k = 0 => last.ret = data

C20_Witness ==
    /\ last.op = "shift"
    /\ UnsignedValue(last.args[2]) = 33
    /\ last.args[3] = "SRA"
    /\ last.args[1][1] = 1
    /\ last.ret = << 1, 1 >> \o Zeros(Width - 2)

(***************************************************************************)
(* C21: for v in [-2^31, 2^31) decoding the hex string of the encoding of  *)
(* v gives v back and the overflow flag is 0; for v outside that range the *)
(* overflow flag is 1.                                                     *)
(***************************************************************************)
C21_RoundTrip ==
    last.op = "round_trip" =>
        /\ InSignedRange(last.args[1]) =>
             /\ last.raised = "None"
             /\ last.ret.decoded.value = last.args[1]
             /\ last.ret.encoded.overflow_flag = 0
        /\ ~InSignedRange(last.args[1]) => last.ret.encoded.overflow_flag = 1

C21_Witness ==
    /\ last.op = "round_trip"
    /\ last.args[1] = IntNeg(Pow2(31))
    /\ last.ret.encoded.hex = << 8, 0, 0, 0, 0, 0, 0, 0 >>
    /\ last.ret.decoded.value = IntNeg(Pow2(31))

(***************************************************************************)
(* The data memory used on its own.  MemorySpec makes write_word and       *)
(* read_word calls on the CPU's data memory at addresses inside, outside   *)
(* and across the edges of the data window.                                *)
(***************************************************************************)
ProbeAddrs ==
    { DmemBase - 4, DmemBase, DmemBase + 2, DmemBase + 4,
      DmemBase + DmemSize - 4, DmemBase + DmemSize }

ProbeData == { W15, I_LUI_X1 }

WriteWord ==
    /\ \E address \in ProbeAddrs, data \in ProbeData :
           LET r == DataMemory_write_word(dmem, address, data)
           IN  Call("write_word", << address, data >>,
                    [cpu |-> [CPU EXCEPT !.dmem = r.memory],
                     raised |-> r.raised, ret |-> "None"])
    /\ UNCHANGED loads

ReadWord ==
    /\ \E address \in ProbeAddrs :
           LET r == DataMemory_read_word(dmem, address)
           IN  Call("read_word", << address >>,
                    [cpu |-> CPU, raised |-> r.raised, ret |-> r.value])
    /\ UNCHANGED loads

MemoryNext ==
    \/ WriteWord
    \/ ReadWord

MemorySpec == Init /\ [][MemoryNext]_vars

\* address a is a multiple of 4 inside [base, base + size)
WordAddress(a) == a % 4 = 0 /\ a >= DmemBase /\ a < DmemBase + DmemSize

(***************************************************************************)
(* C22: before any write every word address reads as zeros; a write_word   *)
(* at a word address succeeds, makes read_word there return its data and   *)
(* leaves what every other word address reads; write_word and read_word at *)
(* an unaligned or out-of-window address fail and the failed write leaves  *)
(* the memory image unchanged; a read_word at a word address returns the   *)
(* stored word.                                                            *)
(***************************************************************************)
C22_DataMemoryWords ==
    /\ \A a \in ProbeAddrs :
          WordAddress(a) => DataMemory_read_word(dmem, a) = [raised |-> "None", value |-> Zeros(32)]
    /\ [][ /\ last'.op = "write_word" =>
                IF WordAddress(last'.args[1])
                THEN /\ last'.raised = "None"
                     /\ DataMemory_read_word(dmem', last'.args[1]) =
                          [raised |-> "None", value |-> last'.args[2]]
                     /\ \A b \in ProbeAddrs \ {last'.args[1]} :
                          DataMemory_read_word(dmem', b) = DataMemory_read_word(dmem, b)
                ELSE /\ last'.raised # "None"
                     /\ dmem' = dmem
                     /\ DataMemory_read_word(dmem', last'.args[1]).raised # "None"
           /\ last'.op = "read_word" =>
                /\ dmem' = dmem
                /\ IF WordAddress(last'.args[1])
                   THEN /\ last'.raised = "None"
                        /\ last'.ret = DataMemory_read_word(dmem, last'.args[1]).value
                   ELSE last'.raised # "None" ]_vars

C22_Witness ==
    /\ last.op = "read_word" /\ last.args[1] = DmemBase + 4
    /\ last.raised = "None" /\ last.ret = W15
    /\ DmemBase \in DOMAIN dmem /\ dmem[DmemBase] = I_LUI_X1

(***************************************************************************)
(* The register file used on its own.  RegisterSpec writes data of the     *)
(* register width, shorter and longer, and clocks the file.                *)
(***************************************************************************)
ShortData == << 1, 0, 1 >>

LongData == << 1 >> \o I_LUI_X1

RegisterAddrs == { 0, 1, 2, NumRegs }

RegisterData == { W15, ShortData, LongData }

WriteRegister ==
    /\ \E addr \in RegisterAddrs, data \in RegisterData, enable \in BOOLEAN :
          LET r == RegisterFile_write(reg_file, addr, data, enable)
          IN  Call("write", << addr, data, enable >>,
                   [cpu |-> [CPU EXCEPT !.reg_file = r.rf],
                    raised |-> r.raised, ret |-> "None"])
    /\ UNCHANGED loads

ClockRegisters ==
    /\ Call("clock_edge", << >>,
            Return([CPU EXCEPT !.reg_file = RegisterFile_clock_edge(reg_file)], "None"))
    /\ UNCHANGED loads

RegisterNext ==
    \/ WriteRegister
    \/ ClockRegisters

RegisterSpec == Init /\ [][RegisterNext]_vars

(***************************************************************************)
(* C23: a register-file write whose data is not Width bits long raises an  *)
(* error and leaves the register file as it was.                           *)
(***************************************************************************)
C23_WrongLengthRejected ==
    [][ (last'.op = "write" /\ Len(last'.args[2]) # Width) =>
            /\ last'.raised # "None"
            /\ reg_file' = reg_file ]_vars

(***************************************************************************)
(* Program loading at the edges.  LoadSpec loads empty, one-word and       *)
(* two-word programs at addresses below, inside and at the end of the      *)
(* instruction window, then runs cycles.                                   *)
(***************************************************************************)
I_JALR_X1_4 == W(<<0, 0, 4, 0, 8, 0, 14, 7>>)     \* JALR x1, 4(x1)

EdgePrograms == { << >>, << I_LUI_X1 >>, << I_LUI_X2, I_SLLI >>, << I_LUI_X1, I_JALR_X1_4 >> }

EdgeAddresses == { ImemBase - 4, ImemBase, ImemBase + ImemSize - 4, ImemBase + ImemSize }

LoadProgramAt ==
    /\ loads <= MaxLoads
    /\ \E instructions \in EdgePrograms, start_address \in EdgeAddresses :
          Call("load_program", << instructions, start_address >>,
               CPU_load_program(CPU, instructions, start_address))
    /\ loads' = loads + 1

LoadNext ==
    \/ LoadProgramAt
    \/ ExecuteCycle
    \/ Reset

LoadSpec == Init /\ [][LoadNext]_vars

(***************************************************************************)
(* C24: in every reachable state the PC is at least 0 and below 2^32.      *)
(***************************************************************************)
C24_PcIsUnsigned32 == pc >= 0 /\ pc \div 65536 < 65536

(***************************************************************************)
(* C25: an execute_cycle step changes a data-memory word only when the     *)
(* fetched instruction is SW, and then only the word at the effective      *)
(* address; it changes a register only when the control bundle of the      *)
(* fetched instruction has RegWrite = 1, and then only register rd; and    *)
(* neither execute_cycle nor run changes the instruction memory.           *)
(***************************************************************************)
DmemWord(mem, a) == IF a \in DOMAIN mem THEN << mem[a] >> ELSE << >>

C25_CycleFrame ==
    [][ /\ last'.op \in {"execute_cycle", "run"} => imem' = imem
        /\ last'.op = "execute_cycle" =>
             IF CycleStep /\ ~AllZero(Fetch(pc).value)
             THEN LET w == Fetch(pc).value
                      name == get_instruction_name(decode(w))
                      ctrl == generate_control_signals(decode(w), name)
                  IN  /\ dmem' # dmem =>
                           /\ StdOpcode(w) = 35 /\ StdFunct3(w) = 2
                           /\ \A a \in (DOMAIN dmem \cup DOMAIN dmem') \ {EffectiveAddress(w)} :
                                 DmemWord(dmem', a) = DmemWord(dmem, a)
                      /\ \A a \in RegAddrs :
                           reg_file'[a].data # reg_file[a].data =>
                               (ctrl.RegWrite = 1 /\ a = StdRd(w))
             ELSE /\ dmem' = dmem
                  /\ \A a \in RegAddrs : reg_file'[a].data = reg_file[a].data ]_vars

\* a cycle has just written x1 while x2, the data memory and the program
\* hold earlier contents
C25_Witness ==
    /\ CycleFromRunning /\ last.ret = "True"
    /\ StdRd(FetchedWord) = 1 /\ FetchedCtrl.RegWrite = 1
    /\ reg_file[1].data # Zeros(Width)
    /\ reg_file[2].data = W15
    /\ DOMAIN dmem # {}

(***************************************************************************)
(* hex_loader.py.  A file is the sequence of its lines and a line is the   *)
(* sequence of its characters without the line terminator; the only        *)
(* whitespace character of the lines used is the blank.                    *)
(***************************************************************************)
Whitespace == { " " }

RECURSIVE lstrip(_)
lstrip(s) ==
    IF s # << >> /\ Head(s) \in Whitespace THEN lstrip(Tail(s)) ELSE s

RECURSIVE rstrip(_)
rstrip(s) ==
    IF s # << >> /\ s[Len(s)] \in Whitespace THEN rstrip(SubSeq(s, 1, Len(s) - 1)) ELSE s

strip(s) == rstrip(lstrip(s))

\* line.split('#')[0]
RECURSIVE BeforeHash(_)
BeforeHash(s) ==
    IF s = << >> \/ Head(s) = "#" THEN << >>
    ELSE << Head(s) >> \o BeforeHash(Tail(s))

\* s[2:] when s starts with 0x or 0X
StripPrefix(s) ==
    IF Len(s) >= 2 /\ s[1] = "0" /\ s[2] \in {"x", "X"} THEN SubSeq(s, 3, Len(s)) ELSE s

HexUpper == << "0", "1", "2", "3", "4", "5", "6", "7", "8", "9", "A", "B", "C", "D", "E", "F" >>

HexLower == << "a", "b", "c", "d", "e", "f" >>

\* the value of a key of hex_to_bits, -1 for any other character
HexCharValue(c) ==
    IF \E i \in 1..16 : HexUpper[i] = c THEN (CHOOSE i \in 1..16 : HexUpper[i] = c) - 1
    ELSE IF \E i \in 1..6 : HexLower[i] = c THEN (CHOOSE i \in 1..6 : HexLower[i] = c) + 9
    ELSE -1

\* from_hex_string on a sequence of characters
from_hex_string_text(s, width) ==
    LET t == StripPrefix(s)
    IN  IF \E i \in 1..Len(t) : HexCharValue(t[i]) < 0
        THEN [raised |-> "ValueError", value |-> << >>]
        ELSE [raised |-> "None",
              value |-> from_hex_string([i \in 1..Len(t) |-> HexCharValue(t[i])], width)]

\* the loop of load_hex_file from line line_num on; line is the line number
\* named by the error message, 0 when there is none
RECURSIVE HexLoop(_, _, _)
HexLoop(lines, line_num, instructions) ==
    IF line_num > Len(lines)
    THEN [raised |-> "None", line |-> 0, instructions |-> instructions]
    ELSE LET stripped == strip(lines[line_num])
             uncommented == IF \E i \in 1..Len(stripped) : stripped[i] = "#"
                            THEN strip(BeforeHash(stripped)) ELSE stripped
             line == StripPrefix(uncommented)
             word == from_hex_string_text(<< "0", "x" >> \o line, 32)
         IN  IF stripped = << >> THEN HexLoop(lines, line_num + 1, instructions)
             ELSE IF Len(line) # 8 \/ word.raised # "None"
             THEN [raised |-> "ValueError", line |-> line_num, instructions |-> << >>]
             ELSE HexLoop(lines, line_num + 1, Append(instructions, word.value))

load_hex_file(lines) == HexLoop(lines, 1, << >>)

(***************************************************************************)
(* HexSpec loads files of up to MaxLines lines.                            *)
(***************************************************************************)
MaxLines == 3

L_BLANK    == << >>
L_SPACES   == << " ", " " >>
L_COMMENT  == << "#", " ", "a" >>
L_WORD     == << "0", "0", "0", "0", "0", "0", "1", "3" >>
L_TRAILING == << "0", "0", "0", "0", "1", "0", "B", "7", " ", "#", "a" >>
L_PREFIXED == << "0", "x", "0", "0", "2", "0", "8", "1", "3", "3" >>
L_SHORT    == << "0", "0", "0", "0", "0", "1", "3" >>
L_INVALID  == << "0", "0", "0", "0", "0", "0", "1", "G" >>

HexLines == { L_BLANK, L_SPACES, L_COMMENT, L_WORD, L_TRAILING, L_PREFIXED, L_SHORT, L_INVALID }

HexFiles == UNION { [1..n -> HexLines] : n \in 0..MaxLines }

LoadHexFile ==
    /\ \E lines \in HexFiles :
           UnitCall("load_hex_file", << lines >>, load_hex_file(lines).raised,
                    load_hex_file(lines))
    /\ UNCHANGED loads

HexNext ==
    \/ LoadHexFile

HexSpec == Init /\ [][HexNext]_vars

\* the line is blank, or holds only a comment
IsBlankLine(l) == \A i \in 1..Len(l) : l[i] \in Whitespace

IsCommentLine(l) ==
    \E i \in 1..Len(l) : l[i] = "#" /\ \A j \in 1..(i - 1) : l[j] \in Whitespace

\* the text of a line without its trailing comment and 0x prefix
LineText(l) == StripPrefix(strip(BeforeHash(l)))

IsHexWord(t) == Len(t) = 8 /\ \A i \in 1..8 : HexCharValue(t[i]) >= 0

\* the lines that are neither blank nor comments, in file order
ContentLines(lines) ==
    { i \in 1..Len(lines) : ~IsBlankLine(lines[i]) /\ ~IsCommentLine(lines[i]) }

RECURSIVE WordsFrom(_, _)
WordsFrom(lines, i) ==
    IF i > Len(lines) THEN << >>
    ELSE IF i \in ContentLines(lines)
    THEN << from_hex_string([k \in 1..8 |-> HexCharValue(LineText(lines[i])[k])], 32) >>
            \o WordsFrom(lines, i + 1)
    ELSE WordsFrom(lines, i + 1)

(***************************************************************************)
(* C26: load_hex_file skips blank and comment-only lines; when every other *)
(* line holds exactly 8 hex digits after its trailing comment and 0x       *)
(* prefix are removed it returns their words in file order, and otherwise  *)
(* it raises an error naming the first line that does not.                 *)
(***************************************************************************)
C26_HexFile ==
    last.op = "load_hex_file" =>
        LET lines == last.args[1]
            bad == { i \in ContentLines(lines) : ~IsHexWord(LineText(lines[i])) }
        IN  IF bad = {}
            THEN last.raised = "None" /\ last.ret.instructions = WordsFrom(lines, 1)
            ELSE /\ last.raised # "None"
                 /\ last.ret.line = CHOOSE i \in bad : \A j \in bad : i <= j

(***************************************************************************)
(* fpu_f32.py.  A Python float is a record: kind "nan", "inf" or "num",    *)
(* its sign, and for "num" the exact value mag * 2^e with mag a magnitude   *)
(* of the unbounded integers above.  Python floats are binary64, so every  *)
(* arithmetic result is rounded to 53 bits (ties to even); the operands    *)
(* used stay inside the binary64 exponent range.                           *)
(***************************************************************************)
FloatNaN == [kind |-> "nan", neg |-> FALSE, mag |-> << >>, e |-> 0]

FloatInf(neg) == [kind |-> "inf", neg |-> neg, mag |-> << >>, e |-> 0]

FloatNum(neg, mag, e) == [kind |-> "num", neg |-> neg, mag |-> mag, e |-> e]

BitLength(mag) == Len(BitsOfNat(mag))

\* mag * 2^k
ShiftLeft(mag, k) == NatMul(mag, Pow2(k).mag)

\* mag / 2^shift rounded to the nearest integer, ties to even, shift >= 1
RoundNat(mag, shift) ==
    LET bits == BitsOfNat(mag)
        n == Len(bits)
        q == IF shift < n THEN NatOfBits(SubSeq(bits, shift + 1, n)) ELSE << >>
        half == shift <= n /\ bits[shift] = 1
        sticky == \E i \in 1..(shift - 1) : i <= n /\ bits[i] = 1
    IN  IF half /\ (sticky \/ NatBit(q, 1) = 1) THEN NatAdd(q, << 1 >>) ELSE q

\* a finite value rounded to p significant bits
RoundTo(v, p) ==
    IF BitLength(v.mag) <= p THEN v
    ELSE FloatNum(v.neg, RoundNat(v.mag, BitLength(v.mag) - p), v.e + BitLength(v.mag) - p)

\* the value of a magnitude below 2^31 as a number
NatValue(mag) ==
    Digit(mag, 1) + 256 * Digit(mag, 2) + 65536 * Digit(mag, 3) + 16777216 * Digit(mag, 4)

\* struct.unpack('>f', ...) of the 32 bits
unpack_f32(bits) ==
    IF Len(bits) # 32 THEN [raised |-> "ValueError", value |-> FloatNaN]
    ELSE LET exp == NatValue(NatOfBits(Reverse(SubSeq(bits, 2, 9))))
             frac == NatOfBits(Reverse(SubSeq(bits, 10, 32)))
             neg == bits[1] = 1
         IN  [raised |-> "None",
              value |-> IF exp = 255 THEN (IF frac = << >> THEN FloatInf(neg) ELSE FloatNaN)
                        ELSE IF exp = 0 THEN FloatNum(neg, frac, -149)
                        ELSE FloatNum(neg, NatAdd(frac, Pow2(23).mag), exp - 150)]

\* python a + b on floats
FloatAdd(a, b) ==
    IF a.kind = "nan" \/ b.kind = "nan" THEN FloatNaN
    ELSE IF a.kind = "inf" /\ b.kind = "inf"
    THEN (IF a.neg = b.neg THEN a ELSE FloatNaN)
    ELSE IF a.kind = "inf" THEN a
    ELSE IF b.kind = "inf" THEN b
    ELSE LET e == IF a.e < b.e THEN a.e ELSE b.e
             sum == IntAdd(IntOf(a.neg, ShiftLeft(a.mag, a.e - e)),
                           IntOf(b.neg, ShiftLeft(b.mag, b.e - e)))
         IN  IF sum.mag = << >> THEN FloatNum(a.neg /\ b.neg, << >>, 0)
             ELSE RoundTo(FloatNum(sum.neg, sum.mag, e), 53)

\* python a - b on floats
FloatSub(a, b) == FloatAdd(a, [b EXCEPT !.neg = ~b.neg])

\* python a * b on floats
FloatMul(a, b) ==
    IF a.kind = "nan" \/ b.kind = "nan" THEN FloatNaN
    ELSE IF a.kind = "inf" \/ b.kind = "inf"
    THEN (IF (a.kind = "num" /\ a.mag = << >>) \/ (b.kind = "num" /\ b.mag = << >>)
          THEN FloatNaN ELSE FloatInf(a.neg # b.neg))
    ELSE IF a.mag = << >> \/ b.mag = << >> THEN FloatNum(a.neg # b.neg, << >>, 0)
    ELSE RoundTo(FloatNum(a.neg # b.neg, NatMul(a.mag, b.mag), a.e + b.e), 53)

NoFlags == [overflow |-> 0, underflow |-> 0, invalid |-> 0, inexact |-> 0]

\* struct.pack('>f', value) of a finite non-zero value: the low 31 bits of
\* the packed word, or OverflowError when the value rounds to an infinity
struct_pack_f(v) ==
    IF BitLength(v.mag) - 1 + v.e >= -126
    THEN LET r == RoundTo(v, 24)
             n == BitLength(r.mag)
             significand == IF n <= 24 THEN ShiftLeft(r.mag, 24 - n) ELSE RoundNat(r.mag, n - 24)
         IN  IF n - 1 + r.e > 127 THEN [raised |-> "OverflowError", low |-> 0]
             ELSE [raised |-> "None",
                   low |-> (n - 1 + r.e + 126) * 8388608 + NatValue(significand)]
    ELSE [raised |-> "None",
          low |-> NatValue(IF -149 - v.e <= 0 THEN ShiftLeft(v.mag, v.e + 149)
                           ELSE RoundNat(v.mag, -149 - v.e))]

\* pack_f32 without the 'hex' entry of the returned dictionary
pack_f32(value) ==
    IF value.kind = "num" /\ value.mag = << >>
    THEN [raised |-> "None", bits |-> << IF value.neg THEN 1 ELSE 0 >> \o Zeros(31),
          flags |-> NoFlags]
    ELSE IF value.kind = "inf"
    THEN [raised |-> "None",
          bits |-> << IF value.neg THEN 1 ELSE 0 >> \o Fill(1, 8) \o Zeros(23),
          flags |-> [NoFlags EXCEPT !.overflow = 1]]
    ELSE IF value.kind = "nan"
    THEN [raised |-> "None", bits |-> << 0 >> \o Fill(1, 8) \o << 1 >> \o Zeros(22),
          flags |-> [NoFlags EXCEPT !.invalid = 1]]
    ELSE LET packed == struct_pack_f(value)
         IN  IF packed.raised # "None"
             THEN [raised |-> packed.raised, bits |-> << >>, flags |-> NoFlags]
             ELSE [raised |-> "None",
                   bits |-> << IF value.neg THEN 1 ELSE 0 >> \o MagnitudeBits(packed.low, 31),
                   flags |-> IF packed.low \div 8388608 = 0 /\ packed.low % 8388608 # 0
                             THEN [NoFlags EXCEPT !.underflow = 1] ELSE NoFlags]

\* the body shared by fadd_f32, fsub_f32 and fmul_f32 after the unpacking;
\* the 'trace' entry of the returned dictionary is left out
FpuResult(a, b, result_value) ==
    IF a.raised # "None" THEN [raised |-> a.raised, result |-> << >>, flags |-> NoFlags]
    ELSE IF b.raised # "None" THEN [raised |-> b.raised, result |-> << >>, flags |-> NoFlags]
    ELSE [raised |-> pack_f32(result_value).raised,
          result |-> pack_f32(result_value).bits,
          flags |-> pack_f32(result_value).flags]

fadd_f32(a_bits, b_bits) ==
    FpuResult(unpack_f32(a_bits), unpack_f32(b_bits),
              FloatAdd(unpack_f32(a_bits).value, unpack_f32(b_bits).value))

fsub_f32(a_bits, b_bits) ==
    FpuResult(unpack_f32(a_bits), unpack_f32(b_bits),
              FloatSub(unpack_f32(a_bits).value, unpack_f32(b_bits).value))

fmul_f32(a_bits, b_bits) ==
    FpuResult(unpack_f32(a_bits), unpack_f32(b_bits),
              FloatMul(unpack_f32(a_bits).value, unpack_f32(b_bits).value))

(***************************************************************************)
(* FpuSpec calls the three operations on NaNs, infinities, zeros, 1.0,     *)
(* 2.0, 2^103, the largest finite values and the smallest subnormal.       *)
(***************************************************************************)
F_QNAN    == W(<<7, 15, 12, 0, 0, 0, 0, 0>>)
F_SNAN    == W(<<7, 15, 8, 0, 0, 0, 0, 1>>)
F_NEGNAN  == W(<<15, 15, 12, 0, 0, 0, 0, 1>>)
F_INF     == W(<<7, 15, 8, 0, 0, 0, 0, 0>>)
F_NEGINF  == W(<<15, 15, 8, 0, 0, 0, 0, 0>>)
F_NEGZERO == W(<<8, 0, 0, 0, 0, 0, 0, 0>>)
F_ONE     == W(<<3, 15, 8, 0, 0, 0, 0, 0>>)
F_TWO     == W(<<4, 0, 0, 0, 0, 0, 0, 0>>)
F_MAX     == W(<<7, 15, 7, 15, 15, 15, 15, 15>>)
F_NEGMAX  == W(<<15, 15, 7, 15, 15, 15, 15, 15>>)
F_HALFULP == W(<<7, 3, 0, 0, 0, 0, 0, 0>>)
F_TINY    == W(<<0, 0, 0, 0, 0, 0, 0, 1>>)

FpuOperands ==
    { F_QNAN, F_SNAN, F_NEGNAN, F_INF, F_NEGINF, I_ZERO, F_NEGZERO, F_ONE, F_TWO,
      F_MAX, F_NEGMAX, F_HALFULP, F_TINY }

FpuOps == { "fadd_f32", "fsub_f32", "fmul_f32" }

Fpu(op, a_bits, b_bits) ==
    CASE op = "fadd_f32" -> fadd_f32(a_bits, b_bits)
      [] op = "fsub_f32" -> fsub_f32(a_bits, b_bits)
      [] op = "fmul_f32" -> fmul_f32(a_bits, b_bits)

FpuCall ==
    /\ last.op = "init"
    /\ \E op \in FpuOps, a_bits \in FpuOperands, b_bits \in FpuOperands :
           \E r \in { Fpu(op, a_bits, b_bits) } :
               UnitCall(op, << a_bits, b_bits >>, r.raised, r)
    /\ UNCHANGED loads

FpuNext ==
    \/ FpuCall

FpuSpec == Init /\ [][FpuNext]_vars

\* exponent all ones and a non-zero fraction
IsNaNPattern(bits) ==
    /\ \A i \in 2..9 : bits[i] = 1
    /\ \E i \in 10..32 : bits[i] = 1

(***************************************************************************)
(* C27: fadd_f32, fsub_f32 and fmul_f32 never raise an error, and when     *)
(* either input is a NaN pattern the result is 0x7FC00000 with the invalid *)
(* flag set.                                                               *)
(***************************************************************************)
C27_NaNAndNoErrors ==
    last.op \in FpuOps =>
        /\ last.raised = "None"
        /\ (IsNaNPattern(last.args[1]) \/ IsNaNPattern(last.args[2])) =>
              /\ last.ret.result = F_QNAN
              /\ last.ret.flags.invalid = 1

(***************************************************************************)
(* C28: a cycle that fetches JALR rd, imm(rs1) at address P returns True,  *)
(* sets the next PC to rs1 + sign-extended imm with bit 0 cleared, rs1     *)
(* being the value held at the start of the cycle, and for rd # 0 leaves   *)
(* P + 4 in rd, also when rd = rs1.                                        *)
(***************************************************************************)
C28_JALR ==
    [][ LET w == Fetch(pc).value
            sum == Add32(reg_file[StdRs1(w)].data, StdImmI(w))
        IN  (CycleStep /\ StdOpcode(w) = 103 /\ StdFunct3(w) = 0)
              => /\ last'.raised = "None" /\ last'.ret = "True"
                 /\ int_to_bits(pc', 32) = [i \in 1..32 |-> IF i = 32 THEN 0 ELSE sum[i]]
                 /\ StdRd(w) # 0 => reg_file'[StdRd(w)].data = int_to_bits(pc + 4, 32) ]_vars

(***************************************************************************)
(* C29: on a halted CPU execute_cycle returns False and run returns at     *)
(* once, and neither changes PC, registers, memories, counters or the      *)
(* halted flag; only reset clears the halted flag; cycle_count equals      *)
(* instruction_count in every state, and an execute_cycle call raises both *)
(* by exactly 1 when it returns True and leaves them alone otherwise.      *)
(***************************************************************************)
C29_HaltedAbsorbing ==
    /\ [](cycle_count = instruction_count)
    /\ [][ /\ (halted /\ last'.op \in {"execute_cycle", "run"}) =>
                /\ last'.raised = "None"
                /\ last'.op = "execute_cycle" => last'.ret = "False"
                /\ last'.op = "run" => last'.ret.cycles = cycle_count /\ last'.ret.final_pc = pc
                /\ UNCHANGED << reg_file, imem, dmem, pc, halted, cycle_count, instruction_count >>
           /\ (halted /\ ~halted') => last'.op = "reset"
           /\ last'.op = "execute_cycle" =>
                IF last'.raised = "None" /\ last'.ret = "True"
                THEN /\ cycle_count' = cycle_count + 1
                     /\ instruction_count' = instruction_count + 1
                ELSE /\ cycle_count' = cycle_count
                     /\ instruction_count' = instruction_count ]_vars

\* execute_cycle has just returned False on a CPU that was halted with an
\* executable instruction at its PC
C29_Witness ==
    /\ last.op = "execute_cycle" /\ last.before.halted /\ last.ret = "False"
    /\ halted
    /\ Fetch(pc).raised = "None" /\ FetchedName = "LUI"

(***************************************************************************)
(* C30: a load_program call that fails leaves the instruction memory and   *)
(* the PC as they were; one that succeeds stores word i (from 0) at        *)
(* start_address + 4 * i and sets the PC to start_address.                 *)
(***************************************************************************)
C30_LoadAllOrNothing ==
    [][ last'.op = "load_program" =>
            LET instructions == last'.args[1]
                start_address == last'.args[2]
            IN  IF last'.raised # "None"
                THEN imem' = imem /\ pc' = pc
                ELSE /\ pc' = start_address
                     /\ \A i \in 1..Len(instructions) :
                           /\ start_address + 4 * (i - 1) \in DOMAIN imem'
                           /\ imem'[start_address + 4 * (i - 1)] = instructions[i] ]_vars

====
